---- MODULE Spec2Model ----
(***************************************************************************)
(* Model of the skills server: the tool-catalog composition engine of      *)
(* src/src/index.ts (flattened bridge mode) and of src/unnamed/part_008    *)
(* (navigation bridge mode).  One behaviour runs one of the two servers    *)
(* (variable mode).  Requests are asynchronous handlers; every await of    *)
(* the source at which shared state can change is a step boundary.         *)
(***************************************************************************)
EXTENDS Integers, Sequences, FiniteSets, TLC

\* ------------------------------------------------------------------ bounds
MaxReq == 2         \* request slots that may overlap
MaxClients == 2     \* bridge Client objects ever constructed
MaxTicks == 1       \* clock advances
MaxEnvSteps == 1    \* changes of the file system / bridge provider
MaxSkillTicks == 2  \* clock advances of the runs that exercise the skill cache

\* ------------------------------------------------------- program constants
CACHE_DURATION == 5000
LAZY_MCP_CACHE_DURATION == 300000

\* Date.now() at start-up is far beyond both durations (timestamps start at 0)
StartTime == LAZY_MCP_CACHE_DURATION + CACHE_DURATION

Req == 1..MaxReq
Modes == {"flat", "nav"}

\* ------------------------------------------------------------ environment
\* process.env.LAZY_MCP_ENABLED: "unset" or the string it holds
EnvValues == {"unset", "true", "false", "1"}

\* a flag that the launch command switches on whatever the variable holds
isLazyMCPEnabled_CommandFirst(env, cmd) == cmd \/ env = "true"

isLazyMCPEnabled(env, cmd) == IF env # "unset" THEN env = "true" ELSE cmd

\* a flag that takes every set value other than 'false' as enabled
getLazyMCPEnabled_NotFalse(env, cmd) ==
  IF env # "unset" THEN env # "false" ELSE cmd

getLazyMCPEnabled(env, cmd) == isLazyMCPEnabled(env, cmd)

\* ------------------------------------------------------- skills directory
\* A directory entry of SKILLS_DIR.  dir is the entry name as a sequence of
\* characters; md is the state of its SKILL.md; the remaining fields are the
\* parsed front matter ("" = absent or empty) and the body.

Includes(s, sub) ==
  \E i \in 1..(Len(s) - Len(sub) + 1) : SubSeq(s, i, i + Len(sub) - 1) = sub

Entry(d, isdir, md, n, desc, c, t, at, el) ==
  [dir |-> d, isDir |-> isdir, md |-> md, name |-> n, description |-> desc,
   content |-> c, type |-> t, allowed_tools |-> at, execution_logic |-> el,
   parameters |-> ""]

E_weather == Entry(<<"w">>, TRUE, "ok", "weather", "reports weather",
                   "Always answer in Celsius.", "", <<>>, "")
E_weatherEdited == Entry(<<"w">>, TRUE, "ok", "weather", "reports weather",
                         "Always answer in Fahrenheit.", "", <<>>, "")
E_weather2 == Entry(<<"w","2">>, TRUE, "ok", "weather", "reports weather v2",
                    "Answer in Kelvin.", "", <<>>, "")
E_deploy ==
  [Entry(<<"d">>, TRUE, "ok", "deploy", "deploys things",
         "Run the pipeline.", "executable", <<"git","docker">>, "sequential")
     EXCEPT !.parameters = "schema:target"]
E_plan == Entry(<<"p">>, TRUE, "ok", "plan", "plans things",
                "Think first.", "executable", <<>>, "")
E_triage == Entry(<<"t">>, TRUE, "ok", "triage", "triages reports",
                  "Decide what to do.", "executable", <<"jq">>, "conditional")
E_fanout == Entry(<<"o">>, TRUE, "ok", "fanout", "fans out",
                  "Do it all at once.", "executable", <<>>, "parallel")
E_misc == Entry(<<"i">>, TRUE, "ok", "misc", "does the rest",
                "Do the rest.", "executable", <<>>, "round-robin")
E_leaf == Entry(<<"l">>, TRUE, "ok", "leaf", "local leaf",
                "Local leaf body.", "", <<>>, "")
E_shadow == Entry(<<"s">>, TRUE, "ok", "catA_leaf", "local shadow",
                  "Local shadow body.", "", <<>>, "")
E_navshadow == Entry(<<"n">>, TRUE, "ok", "lazy_mcp_execute_tool", "local exec",
                     "Local exec body.", "", <<>>, "")
E_traversal == Entry(<<"a",".",".","b">>, TRUE, "ok", "evil", "escapes",
                     "Evil body.", "", <<>>, "")
E_backslash == Entry(<<"a","\\","b">>, TRUE, "ok", "evil2", "escapes too",
                     "Evil body 2.", "", <<>>, "")
E_nomd == Entry(<<"m">>, TRUE, "missing", "", "", "", "", <<>>, "")
E_unreadable == Entry(<<"u">>, TRUE, "unreadable", "", "", "", "", <<>>, "")
E_unparsable == Entry(<<"y">>, TRUE, "unparsable", "", "", "", "", <<>>, "")
E_noname == Entry(<<"x">>, TRUE, "ok", "", "nameless", "Body.", "", <<>>, "")
E_nodesc == Entry(<<"z">>, TRUE, "ok", "nodesc", "", "Body.", "", <<>>, "")
E_file == Entry(<<"f">>, FALSE, "ok", "file", "a plain file", "Body.", "", <<>>, "")

\* The directory listings the environment may present
PlainLayout == <<E_weather, E_deploy, E_plan>>

ShadowLayout == <<E_weather, E_shadow, E_navshadow>>

MessyLayout ==
  <<E_traversal, E_nomd, E_noname, E_weather2, E_unreadable, E_weather,
    E_nodesc, E_file, E_backslash, E_unparsable, E_leaf>>

\* executable skills with every kind of execution logic
ExecLayout == <<E_deploy, E_triage, E_fanout, E_misc, E_plan>>

\* PlainLayout after SKILL.md of "w" was edited
EditedLayout == <<E_weatherEdited, E_deploy, E_plan>>

Layouts == { <<>>, PlainLayout, EditedLayout, ShadowLayout, MessyLayout }

\* The states of SKILLS_DIR: a listing, or a root that is absent (and can be
\* created), absent and not creatable, or present but not listable
Disk(st, es) == [state |-> st, entries |-> es]

DiskStates ==
  { Disk("present", l) : l \in Layouts } \cup
  { Disk(st, <<>>) : st \in {"absent", "uncreatable", "unlistable"} }

\* The directories of the runs that exercise the bridge
BridgeDisks == { Disk("present", PlainLayout), Disk("present", ShadowLayout) }

\* The directories of the runs over provider hierarchies
ScanDisks == BridgeDisks \cup { Disk("present", ExecLayout) }

SKILL_MD(d) == <<"SKILLS_DIR">> \o d \o <<"SKILL.md">>

\* skills.push({...}) of the server that runs
MkSkill(m, e) ==
  IF m = "flat"
  THEN [name |-> e.name, description |-> e.description, content |-> e.content,
        path |-> SKILL_MD(e.dir)]
  ELSE [name |-> e.name, description |-> e.description, content |-> e.content,
        path |-> SKILL_MD(e.dir),
        type |-> IF e.type # "" THEN e.type ELSE "static",
        allowed_tools |-> e.allowed_tools,
        execution_logic |-> IF e.execution_logic # "" THEN e.execution_logic
                            ELSE "static",
        parameters |-> e.parameters]

\* a loop body without the check of the directory name
SkillOfDir_NoNameCheck(m, e) ==
  IF e.md = "missing" THEN <<>>
  ELSE IF e.md \in {"unreadable", "unparsable"} THEN <<>>
  ELSE IF e.name = "" \/ e.description = "" THEN <<>>
  ELSE << MkSkill(m, e) >>

\* the body of the loop over skillDirs, for one directory name
SkillOfDir(m, e) ==
  IF Includes(e.dir, <<".", ".">>) \/ Includes(e.dir, <<"/">>)
       \/ Includes(e.dir, <<"\\">>)
  THEN <<>>
  ELSE IF e.md = "missing" THEN <<>>
  ELSE IF e.md \in {"unreadable", "unparsable"} THEN <<>>
  ELSE IF e.name = "" \/ e.description = "" THEN <<>>
  ELSE << MkSkill(m, e) >>

\* a loop that one malformed skill aborts
RECURSIVE ScanDirs_AbortsOnMalformed(_, _)
ScanDirs_AbortsOnMalformed(m, es) ==
  IF es = <<>> THEN <<>>
  ELSE IF ~Head(es).isDir THEN ScanDirs_AbortsOnMalformed(m, Tail(es))
  ELSE IF SkillOfDir(m, Head(es)) = <<>> THEN <<>>
  ELSE SkillOfDir(m, Head(es)) \o ScanDirs_AbortsOnMalformed(m, Tail(es))

RECURSIVE ScanDirs(_, _)
ScanDirs(m, es) ==
  IF es = <<>> THEN <<>>
  ELSE (IF Head(es).isDir THEN SkillOfDir(m, Head(es)) ELSE <<>>)
         \o ScanDirs(m, Tail(es))

\* a loader that publishes the list while it is still being filled
loadSkills_PublishesPartial(m, cache, last, t, d) ==
  IF Len(cache) > 0 /\ (t - last) < CACHE_DURATION
  THEN [skills |-> cache, cache |-> cache, last |-> last, disk |-> d, scanned |-> FALSE]
  ELSE [skills |-> ScanDirs(m, d.entries),
        cache |-> IF ScanDirs(m, d.entries) = <<>> THEN <<>>
                  ELSE << Head(ScanDirs(m, d.entries)) >>,
        last |-> t, disk |-> d, scanned |-> TRUE]

\* a loader that never serves the cache
loadSkills_AlwaysReloads(m, cache, last, t, d) ==
  [skills |-> ScanDirs(m, d.entries), cache |-> ScanDirs(m, d.entries),
   last |-> t, disk |-> d, scanned |-> TRUE]

\* a loader that publishes the empty list when the root cannot be created
loadSkills_ClearsOnFailure(m, cache, last, t, d) ==
  IF Len(cache) > 0 /\ (t - last) < CACHE_DURATION
  THEN [skills |-> cache, cache |-> cache, last |-> last, disk |-> d, scanned |-> FALSE]
  ELSE IF d.state = "uncreatable"
  THEN [skills |-> <<>>, cache |-> <<>>, last |-> t, disk |-> d, scanned |-> FALSE]
  ELSE IF d.state = "absent"
  THEN [skills |-> <<>>, cache |-> <<>>, last |-> t,
        disk |-> Disk("present", <<>>), scanned |-> TRUE]
  ELSE IF d.state = "unlistable"
  THEN [skills |-> <<>>, cache |-> <<>>, last |-> t, disk |-> d, scanned |-> TRUE]
  ELSE [skills |-> ScanDirs(m, d.entries), cache |-> ScanDirs(m, d.entries),
        last |-> t, disk |-> d, scanned |-> TRUE]

\* a loader that serves a young cache also when it is empty
loadSkills_ServesEmpty(m, cache, last, t, d) ==
  IF (t - last) < CACHE_DURATION
  THEN [skills |-> cache, cache |-> cache, last |-> last, disk |-> d, scanned |-> FALSE]
  ELSE IF d.state = "uncreatable"
  THEN [skills |-> <<>>, cache |-> cache, last |-> last, disk |-> d, scanned |-> FALSE]
  ELSE IF d.state = "absent"
  THEN [skills |-> <<>>, cache |-> <<>>, last |-> t,
        disk |-> Disk("present", <<>>), scanned |-> TRUE]
  ELSE IF d.state = "unlistable"
  THEN [skills |-> <<>>, cache |-> <<>>, last |-> t, disk |-> d, scanned |-> TRUE]
  ELSE [skills |-> ScanDirs(m, d.entries), cache |-> ScanDirs(m, d.entries),
        last |-> t, disk |-> d, scanned |-> TRUE]

\* loadSkills(): the list it returns, whether it replaces the cache, and the
\* directory it leaves behind (mkdirSync creates an absent root)
loadSkills(m, cache, last, t, d) ==
  IF Len(cache) > 0 /\ (t - last) < CACHE_DURATION
  THEN [skills |-> cache, cache |-> cache, last |-> last, disk |-> d, scanned |-> FALSE]
  ELSE IF d.state = "uncreatable"
  THEN [skills |-> <<>>, cache |-> cache, last |-> last, disk |-> d, scanned |-> FALSE]
  ELSE IF d.state = "absent"
  THEN [skills |-> <<>>, cache |-> <<>>, last |-> t,
        disk |-> Disk("present", <<>>), scanned |-> TRUE]
  ELSE IF d.state = "unlistable"
  THEN [skills |-> <<>>, cache |-> <<>>, last |-> t, disk |-> d, scanned |-> TRUE]
  ELSE [skills |-> ScanDirs(m, d.entries), cache |-> ScanDirs(m, d.entries),
        last |-> t, disk |-> d, scanned |-> TRUE]

\* ------------------------------------------------------- bridge provider
\* The provider's hierarchy: what get_tools_in_category answers for a path.
\* A path is the sequence of its dot-separated segments (<<>> is "").
ToolDef(n, d, sch) == [name |-> n, description |-> d, inputSchema |-> sch]

Category(ts, cs) == [tools |-> ts, children |-> cs]

Root == <<>>

Tree(h, p) ==
  IF h = "twoCats"
  THEN (IF p = Root THEN Category(<<>>, <<"catA", "catB">>)
        ELSE IF p = <<"catA">>
        THEN Category(<< ToolDef("leaf", "leaf of A", "schemaA") >>, <<"sub">>)
        ELSE IF p = <<"catA", "sub">>
        THEN Category(<< ToolDef("leaf", "", "") >>, <<>>)
        ELSE IF p = <<"catB">>
        THEN Category(<< ToolDef("leaf", "leaf of B", "") >>, <<>>)
        ELSE Category(<<>>, <<>>))
  ELSE IF h = "deep"
  THEN (IF p = Root THEN Category(<< ToolDef("top", "at the root", "") >>, <<"cat">>)
        ELSE IF p = <<"cat">>
        THEN Category(<< ToolDef("leaf", "leaf of cat", "") >>, <<"sub", "sub2">>)
        ELSE IF p = <<"cat", "sub">>
        THEN Category(<<>>, <<"deep">>)
        ELSE IF p = <<"cat", "sub", "deep">>
        THEN Category(<< ToolDef("leaf", "deep leaf", "schemaD"),
                         ToolDef("other", "deep other", "") >>, <<>>)
        ELSE IF p = <<"cat", "sub2">>
        THEN Category(<< ToolDef("leaf", "leaf of sub2", "") >>, <<>>)
        ELSE Category(<<>>, <<>>))
  ELSE IF h = "distinct"
  THEN (IF p = Root THEN Category(<<>>, <<"catA", "catB">>)
        ELSE IF p = <<"catA">>
        THEN Category(<< ToolDef("read", "reads", ""), ToolDef("write", "writes", "") >>,
                      <<>>)
        ELSE IF p = <<"catB">>
        THEN Category(<< ToolDef("send", "sends", "schemaS") >>, <<>>)
        ELSE Category(<<>>, <<>>))
  ELSE Category(<<>>, <<>>)

\* the hierarchies a provider may serve
Providers == {"twoCats", "deep", "distinct", "empty"}

\* the provider that is installed
VARIABLE provider

Hierarchy(p) == Tree(provider, p)

\* `${path}.${name}` when path is non-empty, name otherwise
JoinPath(p, n) == IF p # <<>> THEN p \o <<n>> ELSE <<n>>

inferInputSchema(toolDef) ==
  IF toolDef.inputSchema # "" THEN toolDef.inputSchema ELSE "schema:input"

\* a naming that prefixes the category whatever the depth of the path
createTraditionalTool_AlwaysPrefixed(toolPath, toolDef) ==
  LET parts == toolPath
      category == parts[1]
      toolName == parts[Len(parts)]
  IN  [name |-> category \o "_" \o toolName,
       tool_path |-> toolPath,
       description |-> IF toolDef.description # "" THEN toolDef.description
                       ELSE "No description available",
       inputSchema |-> inferInputSchema(toolDef),
       category |-> category,
       source |-> "lazy-mcp"]

createTraditionalTool(toolPath, toolDef) ==
  LET parts == toolPath
      category == parts[1]
      toolName == parts[Len(parts)]
      safeName == IF Len(parts) > 2 THEN category \o "_" \o toolName ELSE toolName
  IN  [name |-> safeName,
       tool_path |-> toolPath,
       description |-> IF toolDef.description # "" THEN toolDef.description
                       ELSE "No description available",
       inputSchema |-> inferInputSchema(toolDef),
       category |-> category,
       source |-> "lazy-mcp"]

\* the leaf tools of one category answer, in the order of the answer
RECURSIVE LeafTools(_, _)
LeafTools(p, ts) ==
  IF ts = <<>> THEN <<>>
  ELSE << createTraditionalTool(JoinPath(p, Head(ts).name), Head(ts)) >>
         \o LeafTools(p, Tail(ts))

\* a scan that follows the top-level categories only
ChildPaths_TopLevelOnly(p, cs) ==
  IF p = <<>> THEN [i \in 1..Len(cs) |-> << cs[i] >>] ELSE <<>>

\* the paths the scan recurses into, in the order of the answer
RECURSIVE ChildPaths(_, _)
ChildPaths(p, cs) ==
  IF cs = <<>> THEN <<>>
  ELSE << JoinPath(p, Head(cs)) >> \o ChildPaths(p, Tail(cs))

\* the two fixed descriptors of getLazyMCPNavigationTools
NavBrowse == "lazy_mcp_get_tools_in_category"

NavExecute == "lazy_mcp_execute_tool"

NavigationTools ==
  << [name |-> NavBrowse, description |-> "Browse the lazy-mcp tool hierarchy",
      inputSchema |-> "schema:path"],
     [name |-> NavExecute, description |-> "Execute a lazy-mcp tool by path",
      inputSchema |-> "schema:tool_path+arguments"] >>

\* ------------------------------------------------------ requests, answers
\* request.params.arguments: absent (has = FALSE) or an object whose fields
\* are absent (<<>>) or hold one value (<<v>>)
Args(h, q, tp) == [has |-> h, query |-> q, tool_path |-> tp]

NoArgs == Args(FALSE, <<>>, <<>>)

EmptyObject == Args(TRUE, <<>>, <<>>)

\* request.params.arguments || {}
OrEmpty(a) == IF a.has THEN a ELSE EmptyObject

\* the (name, arguments) pairs callers send to either server
Calls(m) ==
  IF m = "flat"
  THEN { <<"weather", Args(TRUE, <<"coffee">>, <<>>)>>,
         <<"leaf", NoArgs>>,
         <<"leaf", Args(TRUE, <<"coffee">>, <<>>)>>,
         <<"catA_leaf", Args(TRUE, <<"coffee">>, <<>>)>>,
         <<"nope", Args(TRUE, <<"coffee">>, <<>>)>> }
  ELSE { <<"weather", Args(TRUE, <<"coffee">>, <<>>)>>,
         <<"deploy", NoArgs>>,
         <<"deploy", Args(TRUE, <<"coffee">>, <<>>)>>,
         <<"deploy", Args(TRUE, <<"">>, <<>>)>>,
         <<"plan", Args(TRUE, <<"coffee">>, <<>>)>>,
         <<NavBrowse, Args(TRUE, <<>>, <<"">>)>>,
         <<NavExecute, Args(TRUE, <<>>, <<"catA.leaf">>)>>,
         <<NavExecute, NoArgs>>,
         <<"nope", Args(TRUE, <<"coffee">>, <<>>)>> }

QuerySchema == "schema:query"

\* a catalog entry that carries the body of the skill
SkillDescriptor_WithContent(skill) ==
  [name |-> skill.name, description |-> skill.description,
   inputSchema |-> QuerySchema, content |-> skill.content]

SkillDescriptor(skill) ==
  [name |-> skill.name, description |-> skill.description,
   inputSchema |-> QuerySchema]

BridgeDescriptor(tool) ==
  [name |-> tool.name,
   description |-> "[" \o tool.category \o "] " \o tool.description,
   inputSchema |-> tool.inputSchema]

RECURSIVE MapSkills(_)
MapSkills(ss) ==
  IF ss = <<>> THEN <<>> ELSE << SkillDescriptor(Head(ss)) >> \o MapSkills(Tail(ss))

RECURSIVE MapTools(_)
MapTools(ts) ==
  IF ts = <<>> THEN <<>> ELSE << BridgeDescriptor(Head(ts)) >> \o MapTools(Tail(ts))

\* skills.find(s => s.name === name): index of the first match, 0 if none
FindByName(xs, n) ==
  IF \E i \in 1..Len(xs) : xs[i].name = n
  THEN CHOOSE i \in 1..Len(xs) :
         xs[i].name = n /\ \A j \in 1..(i - 1) : xs[j].name # n
  ELSE 0

RECURSIVE JoinComma(_)
JoinComma(xs) ==
  IF xs = <<>> THEN ""
  ELSE IF Len(xs) = 1 THEN xs[1]
  ELSE xs[1] \o ", " \o JoinComma(Tail(xs))

\* instructions that leave the task context out
generateDynamicInstructions_NoContext(skill, params) ==
  << "# " \o skill.name \o " - Dynamic Execution", skill.description,
     "## Execution Instructions", skill.content, "## Standard Execution" >>

\* instructions that close with the standard section whatever the logic
generateDynamicInstructions_AlwaysStandard(skill, params) ==
  LET query == IF params.query # <<>> THEN params.query[1] ELSE ""
      availableTools == skill.allowed_tools
  IN  << "# " \o skill.name \o " - Dynamic Execution", skill.description >>
      \o (IF query # "" THEN << "## Task Context", query >> ELSE <<>>)
      \o (IF Len(availableTools) > 0
          THEN << "## Available Tools",
                  "You have access to these tools: " \o JoinComma(availableTools),
                  "## Tool Usage Strategy" >>
          ELSE <<>>)
      \o << "## Execution Instructions", skill.content >>
      \o << "## Standard Execution" >>

\* generateDynamicInstructions: the text as the sequence of its pieces
generateDynamicInstructions(skill, params) ==
  LET query == IF params.query # <<>> THEN params.query[1] ELSE ""
      availableTools == skill.allowed_tools
  IN  << "# " \o skill.name \o " - Dynamic Execution", skill.description >>
      \o (IF query # "" THEN << "## Task Context", query >> ELSE <<>>)
      \o (IF Len(availableTools) > 0
          THEN << "## Available Tools",
                  "You have access to these tools: " \o JoinComma(availableTools),
                  "## Tool Usage Strategy" >>
          ELSE <<>>)
      \o << "## Execution Instructions", skill.content >>
      \o (IF skill.execution_logic = "conditional" THEN << "## Conditional Logic" >>
          ELSE IF skill.execution_logic = "sequential" THEN << "## Sequential Execution" >>
          ELSE IF skill.execution_logic = "parallel" THEN << "## Parallel Execution" >>
          ELSE << "## Standard Execution" >>)

\* what the provider answers to a proxied call: a value fixed by the call
ProviderResult(op, arguments) == [op |-> op, arguments |-> arguments]

NoResp == [type |-> "none"]

ToolsResp(ts) == [type |-> "tools", tools |-> ts]

TextResp(t) == [type |-> "text", text |-> t]

ResultResp(v) == [type |-> "result", value |-> v]

ErrorResp(m) == [type |-> "error", msg |-> m]

NotFound(name) == ErrorResp(<< "Tool '", name, "' not found" >>)

\* `Failed to execute tool '${name}': ${error}`
ExecuteFailure(name, error) ==
  ErrorResp(<< "Failed to execute tool '", name, "': ", error >>)

\* ------------------------------------------------------------------ state
VARIABLES
  mode,                  \* which server runs: index.ts ("flat") or part_008 ("nav")
  envVar,                \* process.env.LAZY_MCP_ENABLED
  cmdExists,             \* fs.existsSync(LAZY_MCP_COMMAND)
  disk,                  \* SKILLS_DIR
  bridgeUp,              \* the provider can be spawned and answers
  failing,               \* the category paths whose lookup the provider fails
  now,                   \* Date.now()
  ticks, envSteps,       \* counters that bound the environment
  skillsCache, lastCacheTime,
  lazyMCPClient,         \* 0 is null, otherwise the Client object
  clientState,           \* per Client object: unused, connecting, connected, closing, closed
  lazyMCPToolsCache, lastLazyMCPCacheTime,
  req                    \* the handler invocations in flight

vars ==
  << provider, mode, envVar, cmdExists, disk, bridgeUp, failing, now, ticks, envSteps,
     skillsCache, lastCacheTime, lazyMCPClient, clientState,
     lazyMCPToolsCache, lastLazyMCPCacheTime, req >>

envVars == << mode, provider, envVar, disk, bridgeUp, failing, now, ticks >>

skillVars == << skillsCache, lastCacheTime >>

bridgeVars == << lazyMCPClient, clientState, lazyMCPToolsCache, lastLazyMCPCacheTime >>

Clients == 1..MaxClients

\* the clock advances of the runs that exercise the bridge
BridgeTicks == {CACHE_DURATION, LAZY_MCP_CACHE_DURATION}

\* the live flag
Flag == getLazyMCPEnabled(envVar, cmdExists)

IdleReq ==
  [pc |-> "idle", kind |-> "none", name |-> "", args |-> NoArgs,
   snow |-> 0, skills |-> <<>>, scanned |-> FALSE, enabled |-> FALSE, lnow |-> 0, cl |-> 0,
   stack |-> <<>>, tools |-> <<>>, lookupFailed |-> FALSE, ops |-> <<>>,
   resp |-> NoResp]

Init ==
  /\ mode \in Modes
  /\ provider = "twoCats"
  /\ envVar \in EnvValues
  /\ cmdExists \in BOOLEAN
  /\ disk \in BridgeDisks
  /\ bridgeUp \in BOOLEAN
  /\ failing \in (IF mode = "flat" THEN { {}, { <<"catA">> } } ELSE { {} })
  /\ now = StartTime
  /\ ticks = 0
  /\ envSteps = 0
  /\ skillsCache = <<>>
  /\ lastCacheTime = 0
  /\ lazyMCPClient = 0
  /\ clientState = [c \in Clients |-> "unused"]
  /\ lazyMCPToolsCache = <<>>
  /\ lastLazyMCPCacheTime = 0
  /\ req = [r \in Req |-> IdleReq]

\* a bridge operation a handler issued
\* (outcome: what the call did, "" while it is pending)
Op(op, c, a, o) == [op |-> op, client |-> c, arguments |-> a, outcome |-> o]

\* the handler returns or throws; its locals die
Done(rq, resp) ==
  [rq EXCEPT !.pc = "done", !.resp = resp, !.lnow = 0, !.cl = 0, !.stack = <<>>]

\* a catalog that puts the bridge entries in front of the skills
ListAnswer_BridgeFirst(rq, ts) ==
  ToolsResp((IF rq.enabled
             THEN (IF mode = "flat" THEN MapTools(ts) ELSE ts)
             ELSE <<>>)
            \o MapSkills(rq.skills))

\* allTools of the ListTools handler
ListAnswer(rq, ts) ==
  ToolsResp(MapSkills(rq.skills)
            \o (IF rq.enabled
                THEN (IF mode = "flat" THEN MapTools(ts) ELSE ts)
                ELSE <<>>))

\* the handler resumes after `await loadLazyMCPTools()` (index.ts) or
\* `await getLazyMCPNavigationTools()` (part_008) with the list ts
AfterLoad(rq, ts) ==
  IF rq.kind = "list"
  THEN Done([rq EXCEPT !.tools = ts], ListAnswer(rq, ts))
  ELSE [rq EXCEPT !.pc = "C_tools", !.tools = ts, !.lnow = 0, !.cl = 0,
                  !.stack = <<>>]

\* a navigation server that flattens the hierarchy as index.ts does
AfterEnsureTrue_AlwaysScans(rq) ==
  [rq EXCEPT !.pc = "scanning", !.stack = << Root >>, !.tools = <<>>, !.cl = 0]

\* ensureLazyMCPConnection() returned true
AfterEnsureTrue(rq) ==
  IF mode = "flat"
  THEN [rq EXCEPT !.pc = "scanning", !.stack = << Root >>, !.tools = <<>>, !.cl = 0]
  ELSE AfterLoad(rq, NavigationTools)

\* an unavailable bridge that is raised to the caller
AfterEnsureFalse_Throws(rq) ==
  Done(rq, ErrorResp(<< "Lazy-MCP not available" >>))

\* ensureLazyMCPConnection() returned false
AfterEnsureFalse(rq) == AfterLoad(rq, <<>>)

\* what a callTool on the client reference c can do: answer ("ok") or throw
\* A client whose handshake or close is pending may or may not serve the call.
ClientOutcomes(c) ==
  IF c = 0 THEN {"TypeError"}
  ELSE IF clientState[c] = "connected"
  THEN (IF bridgeUp THEN {"ok", "ToolError"} ELSE {"NotConnected"})
  ELSE IF clientState[c] \in {"connecting", "closing"}
  THEN (IF bridgeUp THEN {"ok", "NotConnected"} ELSE {"NotConnected"})
  ELSE {"NotConnected"}

\* what the lookup of category p on the client reference c can do
LookupOutcomes(c, p) ==
  IF p \in failing
  THEN (ClientOutcomes(c) \ {"ok"}) \cup
         (IF "ok" \in ClientOutcomes(c) THEN {"ToolError"} ELSE {})
  ELSE IF c # 0 /\ clientState[c] = "connected" /\ bridgeUp THEN {"ok"}
  ELSE ClientOutcomes(c)

\* ------------------------------------------------------------ environment
Tick(d) ==
  /\ ticks < MaxTicks
  /\ now' = now + d
  /\ ticks' = ticks + 1
  /\ UNCHANGED << mode, provider, envVar, cmdExists, disk, bridgeUp, failing, envSteps,
                  skillVars, bridgeVars, req >>

ChangeDisk(d) ==
  /\ envSteps < MaxEnvSteps
  /\ d # disk
  /\ disk' = d
  /\ envSteps' = envSteps + 1
  /\ UNCHANGED << mode, provider, envVar, cmdExists, bridgeUp, failing, now, ticks,
                  skillVars, bridgeVars, req >>

\* the launch command appears or vanishes (it is read only while the
\* variable is unset)
ToggleCommand ==
  /\ envSteps < MaxEnvSteps
  /\ envVar = "unset"
  /\ cmdExists' = ~cmdExists
  /\ envSteps' = envSteps + 1
  /\ UNCHANGED << mode, provider, envVar, disk, bridgeUp, failing, now, ticks,
                  skillVars, bridgeVars, req >>

ToggleBridge ==
  /\ envSteps < MaxEnvSteps
  /\ bridgeUp' = ~bridgeUp
  /\ envSteps' = envSteps + 1
  /\ UNCHANGED << mode, provider, envVar, cmdExists, disk, failing, now, ticks,
                  skillVars, bridgeVars, req >>

\* --------------------------------------------------------------- handlers
\* a handler whose cache still counts as fresh at exactly CACHE_DURATION
RunLoadSkills_LateExpiry(r, rq) ==
  LET ld == loadSkills(mode, skillsCache, lastCacheTime,
                       IF now - lastCacheTime = CACHE_DURATION THEN now - 1 ELSE now,
                       disk)
  IN  /\ skillsCache' = ld.cache
      /\ lastCacheTime' = ld.last
      /\ disk' = ld.disk
      /\ req' = [req EXCEPT ![r] =
                   [rq EXCEPT !.snow = now, !.skills = ld.skills,
                              !.scanned = ld.scanned]]

\* `const skills = await loadSkills()` of either handler
RunLoadSkills(r, rq) ==
  LET ld == loadSkills(mode, skillsCache, lastCacheTime, now, disk)
  IN  /\ skillsCache' = ld.cache
      /\ lastCacheTime' = ld.last
      /\ disk' = ld.disk
      /\ req' = [req EXCEPT ![r] =
                   [rq EXCEPT !.snow = now, !.skills = ld.skills,
                              !.scanned = ld.scanned]]

\* requests take the lowest free slot
FreeSlot(r) == req[r].pc = "idle" /\ \A q \in Req : q < r => req[q].pc # "idle"

ListTools_Start(r) ==
  /\ FreeSlot(r)
  /\ RunLoadSkills(r, [IdleReq EXCEPT !.pc = "L_skills", !.kind = "list"])
  /\ UNCHANGED << mode, provider, envVar, cmdExists, bridgeUp, failing, now, ticks, envSteps,
                  bridgeVars >>

CallTool_Start(r, call) ==
  /\ FreeSlot(r)
  /\ RunLoadSkills(r, [IdleReq EXCEPT !.pc = "C_skills", !.kind = "call",
                                      !.name = call[1], !.args = call[2]])
  /\ UNCHANGED << mode, provider, envVar, cmdExists, bridgeUp, failing, now, ticks, envSteps,
                  bridgeVars >>

\* the values a second, later read of the flag can give: the command file
\* may appear or vanish between two reads, the process environment cannot
FlagReread == IF envVar = "unset" THEN BOOLEAN ELSE {Flag}

FreshClient == CHOOSE c \in Clients :
  clientState[c] = "unused" /\ \A d \in Clients : clientState[d] = "unused" => c <= d

\* ensureLazyMCPConnection() from its call to its first await, or to its
\* return when it does not await; rq is the caller's frame
EnterEnsure(r, rq) ==
  \E f2 \in FlagReread :
    /\ (f2 # Flag) => envSteps < MaxEnvSteps
    /\ cmdExists' = IF f2 # Flag THEN f2 ELSE cmdExists
    /\ envSteps' = IF f2 # Flag THEN envSteps + 1 ELSE envSteps
    /\ \/ /\ ~f2 /\ lazyMCPClient # 0            \* await lazyMCPClient.close()
          /\ clientState' =
               [clientState EXCEPT ![lazyMCPClient] =
                  IF @ = "closed" THEN @ ELSE "closing"]
          /\ req' = [req EXCEPT ![r] =
               [rq EXCEPT !.pc = "closing", !.cl = lazyMCPClient,
                          !.ops = Append(@, Op("close", lazyMCPClient, <<>>, ""))]]
          /\ UNCHANGED << lazyMCPClient, lazyMCPToolsCache >>
       \/ /\ ~f2 /\ lazyMCPClient = 0            \* nothing to close
          /\ lazyMCPToolsCache' = <<>>
          /\ req' = [req EXCEPT ![r] = AfterEnsureFalse(rq)]
          /\ UNCHANGED << lazyMCPClient, clientState >>
       \/ /\ f2 /\ lazyMCPClient = 0             \* new Client, await connect
          /\ \E c \in Clients : clientState[c] = "unused"
          /\ lazyMCPClient' = FreshClient
          /\ clientState' = [clientState EXCEPT ![FreshClient] = "connecting"]
          /\ req' = [req EXCEPT ![r] =
               [rq EXCEPT !.pc = "connecting", !.cl = FreshClient,
                          !.ops = Append(@, Op("connect", FreshClient, <<>>, ""))]]
          /\ UNCHANGED lazyMCPToolsCache
       \/ /\ f2 /\ lazyMCPClient # 0             \* a client reference is held
          /\ req' = [req EXCEPT ![r] = AfterEnsureTrue(rq)]
          /\ UNCHANGED << lazyMCPClient, clientState, lazyMCPToolsCache >>

\* a bridge tool cache that expires with the skill cache
EnterLoadLazy_SkillTTL(r, rq) ==
  IF Len(lazyMCPToolsCache) > 0
       /\ (now - lastLazyMCPCacheTime) < CACHE_DURATION
  THEN /\ req' = [req EXCEPT ![r] = AfterLoad(rq, lazyMCPToolsCache)]
       /\ UNCHANGED << cmdExists, envSteps, lazyMCPClient, clientState,
                       lazyMCPToolsCache >>
  ELSE EnterEnsure(r, [rq EXCEPT !.lnow = now])

\* loadLazyMCPTools() (index.ts) from its call to its first await
EnterLoadLazy(r, rq) ==
  IF Len(lazyMCPToolsCache) > 0
       /\ (now - lastLazyMCPCacheTime) < LAZY_MCP_CACHE_DURATION
  THEN /\ req' = [req EXCEPT ![r] = AfterLoad(rq, lazyMCPToolsCache)]
       /\ UNCHANGED << cmdExists, envSteps, lazyMCPClient, clientState,
                       lazyMCPToolsCache >>
  ELSE EnterEnsure(r, [rq EXCEPT !.lnow = now])

\* ListTools handler after `await loadSkills()`, flag false
ListTools_Disabled(r) ==
  /\ req[r].pc = "L_skills"
  /\ ~Flag
  /\ req' = [req EXCEPT ![r] =
       Done([req[r] EXCEPT !.enabled = FALSE],
            ListAnswer([req[r] EXCEPT !.enabled = FALSE], <<>>))]
  /\ UNCHANGED << envVars, cmdExists, envSteps, skillVars, bridgeVars >>

\* ListTools handler after `await loadSkills()`, flag true
ListTools_Enabled(r) ==
  /\ req[r].pc = "L_skills"
  /\ Flag
  /\ IF mode = "flat"
     THEN EnterLoadLazy(r, [req[r] EXCEPT !.enabled = TRUE])
     ELSE EnterEnsure(r, [req[r] EXCEPT !.enabled = TRUE])
  /\ UNCHANGED << envVars, skillVars, lastLazyMCPCacheTime >>

\* the text a found skill answers with
SkillAnswer(skill, arguments) ==
  IF mode = "nav" /\ skill.type = "executable"
  THEN TextResp(generateDynamicInstructions(skill, OrEmpty(arguments)))
  ELSE TextResp(<< skill.content >>)

\* CallTool handler after `await loadSkills()`: the name is a skill
CallTool_Skill(r) ==
  /\ req[r].pc = "C_skills"
  /\ FindByName(req[r].skills, req[r].name) # 0
  /\ req' = [req EXCEPT ![r] =
       Done(req[r], SkillAnswer(req[r].skills[FindByName(req[r].skills, req[r].name)],
                                req[r].args))]
  /\ UNCHANGED << envVars, cmdExists, envSteps, skillVars, bridgeVars >>

\* CallTool handler: not a skill and nothing of the bridge is consulted
CallTool_NotFound(r) ==
  /\ req[r].pc = "C_skills"
  /\ FindByName(req[r].skills, req[r].name) = 0
  /\ \/ ~Flag
     \/ mode = "nav" /\ req[r].name \notin {NavBrowse, NavExecute}
  /\ req' = [req EXCEPT ![r] =
       Done([req[r] EXCEPT !.enabled = Flag], NotFound(req[r].name))]
  /\ UNCHANGED << envVars, cmdExists, envSteps, skillVars, bridgeVars >>

\* a handler that consults the bridge before the skills
CallTool_Bridge_SkipsSkills(r) ==
  /\ mode = "flat"
  /\ req[r].pc = "C_skills"
  /\ Flag
  /\ EnterLoadLazy(r, [req[r] EXCEPT !.enabled = TRUE])
  /\ UNCHANGED << envVars, skillVars, lastLazyMCPCacheTime >>

\* a handler that consults the bridge whatever the flag
CallTool_Bridge_IgnoresFlag(r) ==
  /\ mode = "flat"
  /\ req[r].pc = "C_skills"
  /\ FindByName(req[r].skills, req[r].name) = 0
  /\ EnterLoadLazy(r, [req[r] EXCEPT !.enabled = TRUE])
  /\ UNCHANGED << envVars, skillVars, lastLazyMCPCacheTime >>

\* CallTool handler of index.ts: not a skill, flag true
CallTool_Bridge(r) ==
  /\ mode = "flat"
  /\ req[r].pc = "C_skills"
  /\ FindByName(req[r].skills, req[r].name) = 0
  /\ Flag
  /\ EnterLoadLazy(r, [req[r] EXCEPT !.enabled = TRUE])
  /\ UNCHANGED << envVars, skillVars, lastLazyMCPCacheTime >>

\* ensureLazyMCPConnection resumes after `await lazyMCPClient.close()`
\* (a close that throws is ignored)
Ensure_Closed(r) ==
  /\ req[r].pc = "closing"
  /\ clientState' = [clientState EXCEPT ![req[r].cl] = "closed"]
  /\ lazyMCPClient' = 0
  /\ lazyMCPToolsCache' = <<>>
  /\ req' = [req EXCEPT ![r] = AfterEnsureFalse(req[r])]
  /\ UNCHANGED << envVars, cmdExists, envSteps, skillVars, lastLazyMCPCacheTime >>

\* ensureLazyMCPConnection resumes after `await lazyMCPClient.connect(transport)`
Ensure_Connected(r) ==
  /\ req[r].pc = "connecting"
  /\ clientState[req[r].cl] = "connecting"
  /\ bridgeUp
  /\ clientState' = [clientState EXCEPT ![req[r].cl] = "connected"]
  /\ req' = [req EXCEPT ![r] = AfterEnsureTrue(req[r])]
  /\ UNCHANGED << envVars, cmdExists, envSteps, skillVars, lazyMCPClient,
                  lazyMCPToolsCache, lastLazyMCPCacheTime >>

\* a catch block that forgets to clear the reference
Ensure_ConnectFailed_KeepsClient(r) ==
  /\ req[r].pc = "connecting"
  /\ clientState[req[r].cl] # "connecting" \/ ~bridgeUp
  /\ clientState' = [clientState EXCEPT ![req[r].cl] = "closed"]
  /\ req' = [req EXCEPT ![r] = AfterEnsureFalse(req[r])]
  /\ UNCHANGED << envVars, cmdExists, envSteps, skillVars, lazyMCPClient,
                  lazyMCPToolsCache, lastLazyMCPCacheTime >>

\* the connect threw: the catch block clears the reference
Ensure_ConnectFailed(r) ==
  /\ req[r].pc = "connecting"
  /\ clientState[req[r].cl] # "connecting" \/ ~bridgeUp
  /\ clientState' = [clientState EXCEPT ![req[r].cl] = "closed"]
  /\ lazyMCPClient' = 0
  /\ req' = [req EXCEPT ![r] = AfterEnsureFalse(req[r])]
  /\ UNCHANGED << envVars, cmdExists, envSteps, skillVars,
                  lazyMCPToolsCache, lastLazyMCPCacheTime >>

\* a scan that repeats a failed lookup until the provider answers it
Scan_Lookup_RetriesFailed(r) ==
  /\ req[r].pc = "scanning"
  /\ req[r].stack # <<>>
  /\ \E o \in LookupOutcomes(lazyMCPClient, Head(req[r].stack)) :
       LET p == Head(req[r].stack)
           rq == [req[r] EXCEPT !.ops = Append(@,
                    Op("get_tools_in_category", lazyMCPClient, p, o))]
       IN  req' = [req EXCEPT ![r] =
             IF o = "ok"
             THEN [rq EXCEPT !.tools = @ \o LeafTools(p, Hierarchy(p).tools),
                             !.stack = ChildPaths(p, Hierarchy(p).children)
                                         \o Tail(@)]
             ELSE [req[r] EXCEPT !.lookupFailed = TRUE]]
  /\ UNCHANGED << envVars, cmdExists, envSteps, skillVars, bridgeVars >>

\* a scan that one failed lookup aborts as a whole
Scan_Lookup_AbortsOnFailure(r) ==
  /\ req[r].pc = "scanning"
  /\ req[r].stack # <<>>
  /\ \E o \in LookupOutcomes(lazyMCPClient, Head(req[r].stack)) :
       LET p == Head(req[r].stack)
           rq == [req[r] EXCEPT !.ops = Append(@,
                    Op("get_tools_in_category", lazyMCPClient, p, o))]
       IN  req' = [req EXCEPT ![r] =
             IF o = "ok"
             THEN [rq EXCEPT !.tools = @ \o LeafTools(p, Hierarchy(p).tools),
                             !.stack = ChildPaths(p, Hierarchy(p).children)
                                         \o Tail(@)]
             ELSE [rq EXCEPT !.stack = <<>>, !.tools = <<>>, !.lookupFailed = TRUE]]
  /\ UNCHANGED << envVars, cmdExists, envSteps, skillVars, bridgeVars >>

\* one invocation of scanLazyMCPHierarchy(path): the category lookup and what
\* the invocation does with its answer; a lookup that throws, or an answer that
\* does not parse, is caught inside the invocation, which then returns nothing
Scan_Lookup(r) ==
  /\ req[r].pc = "scanning"
  /\ req[r].stack # <<>>
  /\ \E o \in LookupOutcomes(lazyMCPClient, Head(req[r].stack)) :
       LET p == Head(req[r].stack)
           rq == [req[r] EXCEPT !.ops = Append(@,
                    Op("get_tools_in_category", lazyMCPClient, p, o))]
       IN  req' = [req EXCEPT ![r] =
             IF o = "ok"
             THEN [rq EXCEPT !.tools = @ \o LeafTools(p, Hierarchy(p).tools),
                             !.stack = ChildPaths(p, Hierarchy(p).children)
                                         \o Tail(@)]
             ELSE [rq EXCEPT !.stack = Tail(@), !.lookupFailed = TRUE]]
  /\ UNCHANGED << envVars, cmdExists, envSteps, skillVars, bridgeVars >>

\* loadLazyMCPTools resumes after `await scanLazyMCPHierarchy()`
Load_Finish(r) ==
  /\ req[r].pc = "scanning"
  /\ req[r].stack = <<>>
  /\ lazyMCPToolsCache' = req[r].tools
  /\ lastLazyMCPCacheTime' = req[r].lnow
  /\ req' = [req EXCEPT ![r] = AfterLoad(req[r], req[r].tools)]
  /\ UNCHANGED << envVars, cmdExists, envSteps, skillVars, lazyMCPClient,
                  clientState >>

\* a proxy that addresses the tool by its external name
ExecuteArguments_ByName(tool, arguments) ==
  [tool_path |-> << tool.name >>, arguments |-> OrEmpty(arguments)]

\* the argument object of the proxied execute_tool call of index.ts
ExecuteArguments(tool, arguments) ==
  [tool_path |-> tool.tool_path, arguments |-> OrEmpty(arguments)]

\* CallTool handler of index.ts after `await loadLazyMCPTools()`
CallTool_Proxy(r) ==
  /\ req[r].pc = "C_tools"
  /\ LET i == FindByName(req[r].tools, req[r].name)
     IN  IF i = 0
         THEN req' = [req EXCEPT ![r] = Done(req[r], NotFound(req[r].name))]
         ELSE \E o \in ClientOutcomes(lazyMCPClient) :
                LET a == ExecuteArguments(req[r].tools[i], req[r].args)
                    rq == [req[r] EXCEPT !.ops = Append(@,
                             Op("execute_tool", lazyMCPClient, a, o))]
                IN  req' = [req EXCEPT ![r] =
                      IF o = "ok"
                      THEN Done(rq, ResultResp(ProviderResult("execute_tool", a)))
                      ELSE Done(rq, ExecuteFailure(req[r].name, o))]
  /\ UNCHANGED << envVars, cmdExists, envSteps, skillVars, bridgeVars >>

\* the provider operation behind a navigation tool name
NavOperation(name) ==
  IF name = NavBrowse THEN "get_tools_in_category" ELSE "execute_tool"

\* the errors the navigation branches throw
NavFailure(name, error) ==
  IF name = NavBrowse
  THEN ErrorResp(<< "Failed to browse lazy-mcp categories: ", error >>)
  ELSE ErrorResp(<< "Failed to execute lazy-mcp tool: ", error >>)

\* CallTool handler of part_008: not a skill, flag true, a navigation name
CallTool_Nav(r) ==
  /\ mode = "nav"
  /\ req[r].pc = "C_skills"
  /\ FindByName(req[r].skills, req[r].name) = 0
  /\ Flag
  /\ req[r].name \in {NavBrowse, NavExecute}
  /\ \E o \in ClientOutcomes(lazyMCPClient) :
       LET a == OrEmpty(req[r].args)
           rq == [req[r] EXCEPT !.enabled = TRUE, !.ops = Append(@,
                    Op(NavOperation(req[r].name), lazyMCPClient, a, o))]
       IN  req' = [req EXCEPT ![r] =
             IF o = "ok"
             THEN Done(rq, ResultResp(ProviderResult(NavOperation(req[r].name), a)))
             ELSE Done(rq, NavFailure(req[r].name, o))]
  /\ UNCHANGED << envVars, cmdExists, envSteps, skillVars, bridgeVars >>

\* the answer has been sent; the slot serves the next request
Retire(r) ==
  /\ req[r].pc = "done"
  /\ req' = [req EXCEPT ![r] = IdleReq]
  /\ UNCHANGED << envVars, cmdExists, envSteps, skillVars, bridgeVars >>

\* what the environment does in the runs that exercise the bridge
BridgeEnv ==
  \/ \E d \in BridgeTicks : Tick(d)
  \/ ToggleCommand
  \/ ToggleBridge

\* one step of the handler invocation in slot r
Handle(r) ==
  \/ ListTools_Start(r)
  \/ \E c \in Calls(mode) : CallTool_Start(r, c)
  \/ ListTools_Disabled(r)
  \/ ListTools_Enabled(r)
  \/ CallTool_Skill(r)
  \/ CallTool_NotFound(r)
  \/ CallTool_Bridge(r)
  \/ CallTool_Nav(r)
  \/ Ensure_Closed(r)
  \/ Ensure_Connected(r)
  \/ Ensure_ConnectFailed(r)
  \/ Scan_Lookup(r)
  \/ Load_Finish(r)
  \/ CallTool_Proxy(r)
  \/ Retire(r)

\* requests served one at a time, as the reference design assumes
OneAtATime == {1}

Next == BridgeEnv \/ \E r \in OneAtATime : Handle(r)

Spec == Init /\ [][Next]_vars

\* ------------------------------------------- runs of the skill cache alone
\* The bridge is switched off (LAZY_MCP_ENABLED=false); the skills directory
\* changes and the clock advances by less than, or by, the cache duration.
SkillTicks == {CACHE_DURATION - 1, CACHE_DURATION}

SkillCalls ==
  { << n, NoArgs >> : n \in {"weather", "evil"} }

SkillInit ==
  /\ mode = "flat"
  /\ provider = "twoCats"
  /\ envVar = "false"
  /\ cmdExists = FALSE
  /\ disk \in DiskStates
  /\ bridgeUp = FALSE
  /\ failing = {}
  /\ now = StartTime
  /\ ticks = 0
  /\ envSteps = 0
  /\ skillsCache = <<>>
  /\ lastCacheTime = 0
  /\ lazyMCPClient = 0
  /\ clientState = [c \in Clients |-> "unused"]
  /\ lazyMCPToolsCache = <<>>
  /\ lastLazyMCPCacheTime = 0
  /\ req = [r \in Req |-> IdleReq]

SkillTick(d) ==
  /\ ticks < MaxSkillTicks
  /\ now' = now + d
  /\ ticks' = ticks + 1
  /\ UNCHANGED << mode, provider, envVar, cmdExists, disk, bridgeUp, failing, envSteps,
                  skillVars, bridgeVars, req >>

SkillEnv ==
  \/ \E d \in SkillTicks : SkillTick(d)
  \/ \E d \in DiskStates : ChangeDisk(d)

\* no other handler invocation is between its start and its answer; of the
\* earlier answers at most one, of a list-tools request, is still in its slot
Quiet(r) ==
  /\ \A q \in Req \ {r} : req[q].pc \in {"idle", "done"}
  /\ req[r].pc = "idle" =>
       /\ Cardinality({ q \in Req : req[q].pc = "done" }) <= 1
       /\ \A q \in Req : req[q].pc = "done" => req[q].kind = "list"

\* one step of a request that is handled alone
SkillHandle(r) ==
  \/ Quiet(r) /\ ListTools_Start(r)
  \/ \E c \in SkillCalls : Quiet(r) /\ CallTool_Start(r, c)
  \/ Quiet(r) /\ ListTools_Disabled(r)
  \/ Quiet(r) /\ CallTool_Skill(r)
  \/ Quiet(r) /\ CallTool_NotFound(r)
  \/ Retire(r)

SkillNext == SkillEnv \/ \E r \in Req : SkillHandle(r)

SkillSpec == SkillInit /\ [][SkillNext]_vars

\* one step of a request of the skill-cache runs when requests overlap
SkillConcHandle(r) ==
  \/ ListTools_Start(r)
  \/ \E c \in SkillCalls : CallTool_Start(r, c)
  \/ ListTools_Disabled(r)
  \/ CallTool_Skill(r)
  \/ CallTool_NotFound(r)
  \/ Retire(r)

SkillConcNext == SkillEnv \/ \E r \in Req : SkillConcHandle(r)

SkillConcSpec == SkillInit /\ [][SkillConcNext]_vars

\* ------------------------------------------ runs with overlapping requests
\* The flattened server with the bridge switched on by the launch command;
\* every request may be received while others are between two awaits.
ConcCalls == { << "leaf", NoArgs >> }

ConcInit ==
  /\ mode = "flat"
  /\ provider = "twoCats"
  /\ envVar = "unset"
  /\ cmdExists = TRUE
  /\ disk = Disk("present", PlainLayout)
  /\ bridgeUp \in BOOLEAN
  /\ failing = {}
  /\ now = StartTime
  /\ ticks = 0
  /\ envSteps = 0
  /\ skillsCache = <<>>
  /\ lastCacheTime = 0
  /\ lazyMCPClient = 0
  /\ clientState = [c \in Clients |-> "unused"]
  /\ lazyMCPToolsCache = <<>>
  /\ lastLazyMCPCacheTime = 0
  /\ req = [r \in Req |-> IdleReq]

\* the launch command that was removed is installed again
ReinstallCommand ==
  /\ envVar = "unset"
  /\ ~cmdExists
  /\ envSteps = MaxEnvSteps
  /\ cmdExists' = TRUE
  /\ envSteps' = envSteps + 1
  /\ UNCHANGED << mode, provider, envVar, disk, bridgeUp, failing, now, ticks,
                  skillVars, bridgeVars, req >>

ConcEnv == ToggleCommand \/ ReinstallCommand

ConcHandle(r) ==
  \/ ListTools_Start(r)
  \/ \E c \in ConcCalls : CallTool_Start(r, c)
  \/ ListTools_Disabled(r)
  \/ ListTools_Enabled(r)
  \/ CallTool_NotFound(r)
  \/ CallTool_Bridge(r)
  \/ Ensure_Closed(r)
  \/ Ensure_Connected(r)
  \/ Ensure_ConnectFailed(r)
  \/ Scan_Lookup(r)
  \/ Load_Finish(r)
  \/ CallTool_Proxy(r)
  \/ Retire(r)

ConcNext == ConcEnv \/ \E r \in Req : ConcHandle(r)

ConcSpec == ConcInit /\ [][ConcNext]_vars

\* ------------------------------- runs with overlapping requests and a clock
\* The flattened server with LAZY_MCP_ENABLED=true and a provider that is up
\* or down for the whole run; list-tools requests overlap and the clock
\* advances between them.
StampInit ==
  /\ mode = "flat"
  /\ provider = "twoCats"
  /\ envVar = "true"
  /\ cmdExists = FALSE
  /\ disk = Disk("present", PlainLayout)
  /\ bridgeUp \in BOOLEAN
  /\ failing = {}
  /\ now = StartTime
  /\ ticks = 0
  /\ envSteps = 0
  /\ skillsCache = <<>>
  /\ lastCacheTime = 0
  /\ lazyMCPClient = 0
  /\ clientState = [c \in Clients |-> "unused"]
  /\ lazyMCPToolsCache = <<>>
  /\ lastLazyMCPCacheTime = 0
  /\ req = [r \in Req |-> IdleReq]

\* one step of a list-tools request
StampHandle(r) ==
  \/ ListTools_Start(r)
  \/ ListTools_Enabled(r)
  \/ Ensure_Connected(r)
  \/ Ensure_ConnectFailed(r)
  \/ Scan_Lookup(r)
  \/ Load_Finish(r)
  \/ Retire(r)

StampNext == (\E d \in BridgeTicks : Tick(d)) \/ \E r \in Req : StampHandle(r)

StampSpec == StampInit /\ [][StampNext]_vars

\* --------------------------------------- runs in which every await settles
\* The flattened server with LAZY_MCP_ENABLED=true; requests overlap, the
\* provider goes up or down, and every bridge operation returns or fails.
LiveProviders == {"twoCats", "deep"}

LiveCalls == ConcCalls \cup { << "weather", NoArgs >> }

LiveInit ==
  /\ mode = "flat"
  /\ provider \in LiveProviders
  /\ envVar = "true"
  /\ cmdExists = FALSE
  /\ disk = Disk("present", PlainLayout)
  /\ bridgeUp \in BOOLEAN
  /\ failing = {}
  /\ now = StartTime
  /\ ticks = 0
  /\ envSteps = 0
  /\ skillsCache = <<>>
  /\ lastCacheTime = 0
  /\ lazyMCPClient = 0
  /\ clientState = [c \in Clients |-> "unused"]
  /\ lazyMCPToolsCache = <<>>
  /\ lastLazyMCPCacheTime = 0
  /\ req = [r \in Req |-> IdleReq]

\* a request is received only while a Client object is left for every
\* request that may still have to construct one
ClientLeft ==
  Cardinality({ q \in Req : req[q].pc \in {"L_skills", "C_skills"} })
    < Cardinality({ c \in Clients : clientState[c] = "unused" })

\* a request is received
Receive(r) ==
  /\ ClientLeft
  /\ \/ ListTools_Start(r)
     \/ \E c \in LiveCalls : CallTool_Start(r, c)

\* the handler invocation in slot r resumes after an await that settled
Resume(r) ==
  \/ ListTools_Enabled(r)
  \/ CallTool_Skill(r)
  \/ CallTool_Bridge(r)
  \/ Ensure_Connected(r)
  \/ Ensure_ConnectFailed(r)
  \/ Scan_Lookup(r)
  \/ Load_Finish(r)
  \/ CallTool_Proxy(r)

LiveNext ==
  \/ ToggleBridge
  \/ \E r \in Req : Receive(r) \/ Resume(r) \/ Retire(r)

\* the event loop resumes every handler whose awaited operation has settled
LiveSpec ==
  LiveInit /\ [][LiveNext]_vars /\ \A r \in Req : WF_vars(Resume(r))

\* ------------------------------------------- runs over provider hierarchies
\* Either server with the bridge switched on (LAZY_MCP_ENABLED=true); the
\* provider serves any of Providers, answers every lookup while it is up, and
\* may go down or come up.
ScanCalls(m) ==
  IF m = "flat"
  THEN { << n, NoArgs >> : n \in {"weather", "leaf", "cat_leaf", "send", "nope"} }
  ELSE { <<"weather", NoArgs>>,
         <<"deploy", Args(TRUE, <<"coffee">>, <<>>)>>,
         <<"triage", Args(TRUE, <<"coffee">>, <<>>)>>,
         <<"triage", Args(TRUE, <<"">>, <<>>)>>,
         <<"fanout", NoArgs>>,
         <<"misc", EmptyObject>>,
         <<"plan", Args(TRUE, <<"coffee">>, <<>>)>>,
         <<NavBrowse, Args(TRUE, <<>>, <<"">>)>>,
         <<"nope", NoArgs>> }

ScanInit ==
  /\ mode \in Modes
  /\ provider \in Providers
  /\ envVar = "true"
  /\ cmdExists = FALSE
  /\ disk \in ScanDisks
  /\ bridgeUp \in BOOLEAN
  /\ failing = {}
  /\ now = StartTime
  /\ ticks = 0
  /\ envSteps = 0
  /\ skillsCache = <<>>
  /\ lastCacheTime = 0
  /\ lazyMCPClient = 0
  /\ clientState = [c \in Clients |-> "unused"]
  /\ lazyMCPToolsCache = <<>>
  /\ lastLazyMCPCacheTime = 0
  /\ req = [r \in Req |-> IdleReq]

ScanHandle(r) ==
  \/ ListTools_Start(r)
  \/ \E c \in ScanCalls(mode) : CallTool_Start(r, c)
  \/ ListTools_Enabled(r)
  \/ CallTool_Skill(r)
  \/ CallTool_NotFound(r)
  \/ CallTool_Bridge(r)
  \/ CallTool_Nav(r)
  \/ Ensure_Connected(r)
  \/ Ensure_ConnectFailed(r)
  \/ Scan_Lookup(r)
  \/ Load_Finish(r)
  \/ CallTool_Proxy(r)
  \/ Retire(r)

ScanNext ==
  \/ \E d \in BridgeTicks : Tick(d)
  \/ ToggleBridge
  \/ \E r \in OneAtATime : ScanHandle(r)

ScanSpec == ScanInit /\ [][ScanNext]_vars

\* ================================================================ claims
HasToolNamed(ts, n) == \E i \in 1..Len(ts) : ts[i].name = n

\* C1: a list-tools request that finds the flag false when it is handled
\* answers with exactly the skill entries, whatever the bridge tool cache and
\* the client reference hold; the flag a request acts on is the live flag at
\* the moment the request evaluates it.
C1_DisabledListsSkillsOnly ==
  [][\A r \in Req :
       (req[r].pc = "L_skills" /\ req'[r].pc # "L_skills") =>
         /\ req'[r].enabled = isLazyMCPEnabled(envVar, cmdExists)
         /\ ~isLazyMCPEnabled(envVar, cmdExists) =>
              /\ req'[r].pc = "done"
              /\ req'[r].resp = ToolsResp(MapSkills(req[r].skills))]_vars

\* C1 witness: a listing answered with the flag false while the cache is
\* filled and a client is held, after the flag was true
C1_Witness ==
  \E r \in Req :
    /\ req[r].pc = "done" /\ req[r].kind = "list" /\ ~req[r].enabled
    /\ req[r].skills # <<>>
    /\ req[r].resp = ToolsResp(MapSkills(req[r].skills))
    /\ lazyMCPToolsCache # <<>> /\ lazyMCPClient # 0

\* C2 (as claimed): a request handled with the flag false while a client is
\* held and the bridge tool cache is filled clears the client reference and
\* empties the cache.
C2_DisabledRequestTearsDown ==
  [][\A r \in Req :
       (/\ req[r].pc \in {"L_skills", "C_skills"} /\ req'[r].pc = "done"
        /\ ~isLazyMCPEnabled(envVar, cmdExists)
        /\ lazyMCPClient # 0 /\ lazyMCPToolsCache # <<>>)
       => (lazyMCPClient' = 0 /\ lazyMCPToolsCache' = <<>>)]_vars

ProxiedOps(rq) ==
  { k \in 1..Len(rq.ops) :
      \/ rq.ops[k].op = "execute_tool"
      \/ mode = "nav" /\ rq.kind = "call" }

\* C4: a call-tool request ends as a skill answer, as a proxied result or
\* failure, or as NotFound; when the name is the name of a loaded skill the
\* answer is that skill's text and the request issued no bridge operation.
C4_SkillsResolvedFirst ==
  \A r \in Req :
    (req[r].pc = "done" /\ req[r].kind = "call") =>
      LET i == FindByName(req[r].skills, req[r].name)
          rs == req[r].resp
      IN  IF i # 0
          THEN /\ rs.type = "text"
               /\ \E k \in 1..Len(rs.text) : rs.text[k] = req[r].skills[i].content
               /\ req[r].ops = <<>>
          ELSE \/ /\ rs = ErrorResp(<< "Tool '", req[r].name, "' not found" >>)
                  /\ ProxiedOps(req[r]) = {}
               \/ /\ rs.type = "result"
                  /\ ProxiedOps(req[r]) = { Len(req[r].ops) }
                  /\ req[r].ops[Len(req[r].ops)].outcome = "ok"
               \/ /\ rs.type = "error"
                  /\ rs # ErrorResp(<< "Tool '", req[r].name, "' not found" >>)
                  /\ ProxiedOps(req[r]) = { Len(req[r].ops) }
                  /\ req[r].ops[Len(req[r].ops)].outcome # "ok"

\* C4 witness: a skill answered although the bridge tool cache holds an entry
\* of the same name and the flag is true
C4_Witness ==
  \E r \in Req :
    /\ req[r].pc = "done" /\ req[r].kind = "call"
    /\ FindByName(req[r].skills, req[r].name) # 0
    /\ HasToolNamed(lazyMCPToolsCache, req[r].name)
    /\ isLazyMCPEnabled(envVar, cmdExists)
    /\ req[r].resp.type = "text" /\ req[r].ops = <<>>

\* C5: with the flag false, a call-tool request for a name that is no loaded
\* skill fails with "Tool '<name>' not found", issues no bridge operation and
\* leaves the client and the bridge tool cache as they are.
C5_DisabledNotFound ==
  [][\A r \in Req :
       (/\ req[r].pc = "C_skills" /\ req'[r].pc # "C_skills"
        /\ ~isLazyMCPEnabled(envVar, cmdExists)
        /\ FindByName(req[r].skills, req[r].name) = 0)
       => /\ req'[r].pc = "done"
          /\ req'[r].resp = ErrorResp(<< "Tool '", req[r].name, "' not found" >>)
          /\ req'[r].ops = <<>>
          /\ UNCHANGED bridgeVars]_vars

\* C5 witness: NotFound for the name of a bridge tool that is still cached,
\* or for a navigation tool name, with the flag false
C5_Witness ==
  \E r \in Req :
    /\ req[r].pc = "done" /\ req[r].kind = "call" /\ ~req[r].enabled
    /\ ~isLazyMCPEnabled(envVar, cmdExists)
    /\ req[r].resp = ErrorResp(<< "Tool '", req[r].name, "' not found" >>)
    /\ req[r].ops = <<>>
    /\ lazyMCPClient # 0
    /\ \/ HasToolNamed(lazyMCPToolsCache, req[r].name)
       \/ req[r].name \in {NavBrowse, NavExecute}

\* C6: in the flattened server, once the connection attempt of a call-tool
\* request has failed, the client reference is cleared, the request goes on
\* with no bridge tools and ends with NotFound naming the tool.
C6_UnavailableIsNotFound ==
  \A r \in Req :
    (/\ mode = "flat" /\ req[r].kind = "call" /\ req[r].ops # <<>>
     /\ req[r].ops[Len(req[r].ops)].op = "connect"
     /\ clientState[req[r].ops[Len(req[r].ops)].client] = "closed")
    => /\ lazyMCPClient = 0
       /\ req[r].tools = <<>>
       /\ req[r].pc \in {"C_tools", "done"}
       /\ req[r].pc = "done" =>
            req[r].resp = ErrorResp(<< "Tool '", req[r].name, "' not found" >>)

\* C6 witness: NotFound after a failed connection attempt, flag true
C6_Witness ==
  \E r \in Req :
    /\ mode = "flat" /\ req[r].pc = "done" /\ req[r].kind = "call"
    /\ req[r].enabled
    /\ Len(req[r].ops) = 1 /\ req[r].ops[1].op = "connect"
    /\ clientState[req[r].ops[1].client] = "closed"
    /\ req[r].resp = ErrorResp(<< "Tool '", req[r].name, "' not found" >>)
    /\ lazyMCPClient = 0

\* C7 (as claimed): in the navigation server, with the flag true and the
\* provider reachable, a call of a navigation tool that no skill shadows is
\* answered by the provider: its result for the caller's arguments, or the
\* provider's own failure.
C7_NavigationProxied ==
  [][\A r \in Req :
       (/\ mode = "nav" /\ req[r].pc = "C_skills" /\ req'[r].pc # "C_skills"
        /\ isLazyMCPEnabled(envVar, cmdExists) /\ bridgeUp
        /\ FindByName(req[r].skills, req[r].name) = 0
        /\ req[r].name \in {NavBrowse, NavExecute})
       => /\ req'[r].pc = "done"
          /\ \/ req'[r].resp =
                  ResultResp([op |-> IF req[r].name = NavBrowse
                                     THEN "get_tools_in_category"
                                     ELSE "execute_tool",
                              arguments |-> IF req[r].args.has THEN req[r].args
                                            ELSE EmptyObject])
             \/ /\ req'[r].resp.type = "error"
                /\ req'[r].resp.msg[Len(req'[r].resp.msg)] = "ToolError"]_vars

\* C8: in the flattened server a call of a name that is no skill and is in the
\* bridge tool list issues exactly one execute_tool call, on a client, with
\* the stored path of the first tool of that name and the caller's arguments
\* (the empty object when absent); the provider's result is returned as it is.
C8_FlatProxy ==
  \A r \in Req :
    (/\ mode = "flat" /\ req[r].pc = "done" /\ req[r].kind = "call"
     /\ req[r].enabled
     /\ FindByName(req[r].skills, req[r].name) = 0
     /\ FindByName(req[r].tools, req[r].name) # 0)
    => LET t  == req[r].tools[FindByName(req[r].tools, req[r].name)]
           ex == { k \in 1..Len(req[r].ops) : req[r].ops[k].op = "execute_tool" }
           sent == [tool_path |-> t.tool_path,
                    arguments |-> IF req[r].args.has THEN req[r].args
                                  ELSE EmptyObject]
       IN  /\ ex = { Len(req[r].ops) }
           /\ \A k \in ex :
                /\ req[r].ops[k].client # 0
                /\ req[r].ops[k].arguments = sent
                /\ req[r].ops[k].outcome = "ok" =>
                     req[r].resp = ResultResp([op |-> "execute_tool",
                                               arguments |-> sent])
                /\ req[r].ops[k].outcome # "ok" => req[r].resp.type = "error"

\* C8 witness: "leaf", exposed by two categories, called without arguments and
\* answered by the provider for the first category's path
C8_Witness ==
  \E r \in Req :
    /\ mode = "flat" /\ req[r].pc = "done" /\ req[r].kind = "call"
    /\ req[r].name = "leaf" /\ ~req[r].args.has
    /\ Cardinality({ k \in 1..Len(req[r].tools) : req[r].tools[k].name = "leaf" }) > 1
    /\ req[r].resp = ResultResp([op |-> "execute_tool",
                                 arguments |-> [tool_path |-> << "catA", "leaf" >>,
                                                arguments |-> EmptyObject]])

\* C9 (as claimed): a proxied call on which the bridge raised an error ends
\* with an error that names the requested tool and carries the bridge's error.
C9_BridgeErrorNamesTool ==
  \A r \in Req :
    (/\ req[r].pc = "done" /\ req[r].kind = "call"
     /\ ProxiedOps(req[r]) # {}
     /\ req[r].ops[Len(req[r].ops)].client # 0
     /\ req[r].ops[Len(req[r].ops)].outcome # "ok")
    => /\ req[r].resp.type = "error"
       /\ \E k \in 1..Len(req[r].resp.msg) : req[r].resp.msg[k] = req[r].name
       /\ req[r].resp.msg[Len(req[r].resp.msg)] = req[r].ops[Len(req[r].ops)].outcome

\* the skill a finished call resolved to is executable
IsExecutable(sk) == mode = "nav" /\ sk.type = "executable"

\* C10 (as claimed): a call of a non-executable skill returns the skill's
\* content exactly; a call of an executable skill returns a generated text
\* that holds the description and, when a query was supplied, a Task Context
\* section with that query.
C10_SkillAnswer ==
  \A r \in Req :
    (/\ req[r].pc = "done" /\ req[r].kind = "call"
     /\ FindByName(req[r].skills, req[r].name) # 0)
    => LET sk == req[r].skills[FindByName(req[r].skills, req[r].name)]
           tx == req[r].resp.text
       IN  /\ req[r].resp.type = "text"
           /\ ~IsExecutable(sk) => tx = << sk.content >>
           /\ IsExecutable(sk) =>
                /\ tx # << sk.content >>
                /\ \E k \in 1..Len(tx) : tx[k] = sk.description
                /\ req[r].args.query # <<>> =>
                     \E k \in 1..(Len(tx) - 1) :
                       tx[k] = "## Task Context" /\ tx[k + 1] = req[r].args.query[1]

\* C10 (amended): as claimed, with the Task Context section present exactly
\* when the supplied query is not the empty string.
C10_SkillAnswerNonEmptyQuery ==
  \A r \in Req :
    (/\ req[r].pc = "done" /\ req[r].kind = "call"
     /\ FindByName(req[r].skills, req[r].name) # 0)
    => LET sk == req[r].skills[FindByName(req[r].skills, req[r].name)]
           tx == req[r].resp.text
           given == req[r].args.query # <<>> /\ req[r].args.query[1] # ""
       IN  /\ req[r].resp.type = "text"
           /\ ~IsExecutable(sk) => tx = << sk.content >>
           /\ IsExecutable(sk) =>
                /\ tx # << sk.content >>
                /\ \E k \in 1..Len(tx) : tx[k] = sk.description
                /\ given =>
                     \E k \in 1..(Len(tx) - 1) :
                       tx[k] = "## Task Context" /\ tx[k + 1] = req[r].args.query[1]
                /\ ~given => \A k \in 1..Len(tx) : tx[k] # "## Task Context"

\* C10 witness: an executable skill called with a query
C10_Witness ==
  \E r \in Req :
    /\ req[r].pc = "done" /\ req[r].kind = "call"
    /\ FindByName(req[r].skills, req[r].name) # 0
    /\ IsExecutable(req[r].skills[FindByName(req[r].skills, req[r].name)])
    /\ req[r].args.query # <<>> /\ req[r].args.query[1] # ""
    /\ \E k \in 1..(Len(req[r].resp.text) - 1) :
         /\ req[r].resp.text[k] = "## Task Context"
         /\ req[r].resp.text[k + 1] = req[r].args.query[1]

\* ------------------------------------------------ claims on the skill cache
\* the step in which slot r receives a list-tools / any request and runs
\* loadSkills
StartsList(r) == req[r].pc = "idle" /\ req'[r].pc = "L_skills"

Starts(r) == req[r].pc = "idle" /\ req'[r].pc \in {"L_skills", "C_skills"}

\* a directory entry that is a skill: a directory with a safe name and a
\* SKILL.md that parses and declares a name and a description
WellFormed(e) ==
  /\ e.isDir /\ e.md = "ok" /\ e.name # "" /\ e.description # ""
  /\ \A i \in 1..Len(e.dir) : e.dir[i] \notin {"/", "\\"}
  /\ \A i \in 1..(Len(e.dir) - 1) : ~(e.dir[i] = "." /\ e.dir[i + 1] = ".")

\* the skill record sk is the skill of the directory entry e
IsSkillOf(sk, e) ==
  /\ sk.name = e.name /\ sk.description = e.description
  /\ sk.content = e.content
  /\ sk.path = << "SKILLS_DIR" >> \o e.dir \o << "SKILL.md" >>

\* the list ss holds the skills of the directory d, all of them and no other
Reflects(ss, d) ==
  LET es == IF d.state = "present" THEN d.entries ELSE <<>>
  IN  /\ \A k \in 1..Len(es) :
           WellFormed(es[k]) => \E i \in 1..Len(ss) : IsSkillOf(ss[i], es[k])
      /\ \A i \in 1..Len(ss) :
           \E k \in 1..Len(es) : WellFormed(es[k]) /\ IsSkillOf(ss[i], es[k])

C12_StaleCacheReloaded ==
  [][\A r \in Req :
       (Starts(r) /\ now - lastCacheTime >= CACHE_DURATION)
       => /\ req'[r].scanned
          /\ Reflects(req'[r].skills, disk)
          /\ skillsCache' = req'[r].skills
          /\ lastCacheTime' = now]_vars

\* C12 (amended): as claimed, unless the skills root is absent and cannot be
\* created: then the request returns no skill and leaves the cached list and
\* the timestamp as they were.
C12_StaleCacheReloadedIfRoot ==
  [][\A r \in Req :
       (Starts(r) /\ now - lastCacheTime >= CACHE_DURATION)
       => IF disk.state = "uncreatable"
          THEN /\ req'[r].skills = <<>>
               /\ UNCHANGED << skillsCache, lastCacheTime >>
          ELSE /\ req'[r].scanned
               /\ Reflects(req'[r].skills, disk)
               /\ skillsCache' = req'[r].skills
               /\ lastCacheTime' = now]_vars

\* C12 witness: exactly CACHE_DURATION after the reload that cached the old
\* content, a request holds the edited skill and the cache is replaced
C12_Witness ==
  \E r \in Req : \E q \in Req \ {r} :
    /\ req[q].pc = "done" /\ req[q].kind = "list" /\ req[q].snow = StartTime
    /\ \E i \in 1..Len(req[q].skills) : req[q].skills[i].content = E_weather.content
    /\ req[r].pc \in {"L_skills", "C_skills"} /\ req[r].scanned
    /\ req[r].snow = StartTime + CACHE_DURATION
    /\ lastCacheTime = req[r].snow
    /\ disk = Disk("present", EditedLayout)
    /\ skillsCache = req[r].skills
    /\ \E i \in 1..Len(skillsCache) : skillsCache[i].content = E_weatherEdited.content

\* C13 (as claimed): a call-tool request for a skill that the directory holds
\* is served with the content the directory holds when the request is handled.
C13_HotReload ==
  [][\A r \in Req :
       (/\ req[r].pc = "idle" /\ req'[r].pc = "C_skills"
        /\ disk.state = "present"
        /\ \E k \in 1..Len(disk.entries) :
             WellFormed(disk.entries[k]) /\ disk.entries[k].name = req'[r].name)
       => \E i \in 1..Len(req'[r].skills) : \E k \in 1..Len(disk.entries) :
            /\ req'[r].skills[i].name = req'[r].name
            /\ \A j \in 1..(i - 1) : req'[r].skills[j].name # req'[r].name
            /\ WellFormed(disk.entries[k])
            /\ IsSkillOf(req'[r].skills[i], disk.entries[k])]_vars

\* the values the documentation lets CACHE_DURATION be set to; the server
\* reads none of them, so every run is a run under each setting
CacheDurationSettings == {0, CACHE_DURATION - 1, CACHE_DURATION}

\* C14 (as claimed): under the setting CACHE_DURATION=T, every request handled
\* T ms or more after the last reload re-reads the directory; with T = 0 every
\* request does.
C14_ConfiguredThreshold ==
  [][\A T \in CacheDurationSettings : \A r \in Req :
       (Starts(r) /\ now - lastCacheTime >= T /\ disk.state # "uncreatable")
       => req'[r].scanned]_vars

\* the positions of the skills among the directory entries es
WellFormedAt(es) == { k \in 1..Len(es) : WellFormed(es[k]) }

UnsafePath(p) ==
  \/ \E i \in 1..Len(p) : p[i] \in {"/", "\\"}
  \/ \E i \in 1..(Len(p) - 1) : p[i] = "." /\ p[i + 1] = "."

\* the names that only directories with unsafe names declare
UnsafeOnlyNames(d) ==
  { d.entries[k].name : k \in { j \in 1..Len(d.entries) : UnsafePath(d.entries[j].dir) } }
    \ { d.entries[k].name : k \in { j \in 1..Len(d.entries) : ~UnsafePath(d.entries[j].dir) } }

\* C20: no skill of a directory whose name contains "..", "/" or "\" is in
\* the skill cache or in the list a request holds; a catalog names only skills
\* of that list, and a call of a name that is not in that list is NotFound.
C20_NoTraversal ==
  /\ \A i \in 1..Len(skillsCache) : ~UnsafePath(skillsCache[i].path)
  /\ \A r \in Req :
       /\ \A i \in 1..Len(req[r].skills) : ~UnsafePath(req[r].skills[i].path)
       /\ (req[r].pc = "done" /\ req[r].kind = "list") =>
            \A t \in 1..Len(req[r].resp.tools) :
              \E i \in 1..Len(req[r].skills) :
                req[r].skills[i].name = req[r].resp.tools[t].name
       /\ (req[r].pc = "done" /\ req[r].kind = "call"
             /\ \A i \in 1..Len(req[r].skills) : req[r].skills[i].name # req[r].name) =>
            req[r].resp = ErrorResp(<< "Tool '", req[r].name, "' not found" >>)

\* C20 witness: the directory holds valid descriptors under unsafe names, it
\* was scanned, and a call of the name one of them declares is NotFound
C20_Witness ==
  \E r \in Req :
    /\ disk.state = "present"
    /\ req[r].pc = "done" /\ req[r].kind = "call" /\ req[r].scanned
    /\ req[r].skills # <<>>
    /\ req[r].name \in UnsafeOnlyNames(disk)
    /\ \E k \in 1..Len(disk.entries) :
         /\ disk.entries[k].name = req[r].name
         /\ disk.entries[k].md = "ok" /\ disk.entries[k].description # ""
    /\ req[r].resp.type = "error"

\* ------------------------------------------- claims on overlapping requests
\* C15: with overlapping requests, every step runs loadSkills for at most one
\* request; the cached list and its timestamp change only in such a step, as
\* a whole; the list a request receives is the previous snapshot or the full
\* list of the directory, and it never changes while the request holds it.
C15_ReloadAtomic ==
  [][/\ Cardinality({ r \in Req : Starts(r) }) <= 1
     /\ (skillsCache' # skillsCache \/ lastCacheTime' # lastCacheTime) =>
          \E r \in Req :
            Starts(r) /\ req'[r].scanned /\ skillsCache' = req'[r].skills
     /\ \A r \in Req :
          /\ Starts(r) =>
               \/ /\ ~req'[r].scanned /\ req'[r].skills = skillsCache
                  /\ UNCHANGED << skillsCache, lastCacheTime >>
               \/ /\ Reflects(req'[r].skills, disk)
                  /\ disk.state # "uncreatable" => skillsCache' = req'[r].skills
          /\ (req[r].pc \in {"L_skills", "C_skills"} /\ req'[r].pc # "idle") =>
               req'[r].skills = req[r].skills]_vars

\* C15 witness: two requests in flight at once, one holding the previous
\* snapshot and one the reloaded list, both complete
C15_Witness ==
  \E q \in Req : \E r \in Req \ {q} :
    /\ req[q].pc \in {"L_skills", "C_skills"}
    /\ req[r].pc \in {"L_skills", "C_skills"}
    /\ req[q].skills # <<>> /\ req[r].skills # <<>>
    /\ req[q].skills # req[r].skills
    /\ req[r].scanned /\ req[r].skills = skillsCache
    /\ Reflects(req[r].skills, disk) /\ ~Reflects(req[q].skills, disk)

\* C16 (as claimed): no request starts a scan of the bridge hierarchy while
\* the scan of another request is in progress.
C16_OneScanAtATime ==
  [][\A r \in Req :
       (req[r].pc # "scanning" /\ req'[r].pc = "scanning")
       => \A q \in Req \ {r} : req[q].pc # "scanning"]_vars

\* the Client objects with a connection that is opening, open or closing
LiveClients == { c \in Clients : clientState[c] \in {"connecting", "connected", "closing"} }

\* C17 (as claimed): at most one client has a connection; a client is created
\* only while no reference is held; no connect starts while a close is in
\* progress.
C17_OneConnection ==
  [][/\ Cardinality(LiveClients') <= 1
     /\ \A c \in Clients :
          (clientState[c] = "unused" /\ clientState'[c] # "unused") =>
            /\ lazyMCPClient = 0
            /\ \A q \in Req : req[q].pc # "closing"]_vars

\* C18 (as claimed): list-tools requests answered while nothing changed (no
\* change of the flag, of the directory or of the provider, no clock advance)
\* all return the same catalog.
C18_ConcurrentListsAgree ==
  \A q \in Req : \A r \in Req \ {q} :
    (/\ envSteps = 0 /\ ticks = 0
     /\ req[q].pc = "done" /\ req[q].kind = "list"
     /\ req[r].pc = "done" /\ req[r].kind = "list")
    => req[q].resp = req[r].resp

\* ------------------------------------------------ claims on names and order
\* the entries of xs have pairwise different names
UniqueNames(xs) ==
  \A i \in 1..Len(xs) : \A j \in 1..Len(xs) : xs[i].name = xs[j].name => i = j

\* C21 (as claimed): the skill cache, the list a request holds and every
\* catalog hold at most one entry per skill name, also when two directories
\* declare the same name; the entry listed under a name is the one a call of
\* that name resolves to.
C21_UniqueSkillNames ==
  /\ UniqueNames(skillsCache)
  /\ \A r \in Req :
       /\ UniqueNames(req[r].skills)
       /\ (req[r].pc = "done" /\ req[r].kind = "list") =>
            /\ UniqueNames(req[r].resp.tools)
            /\ \A t \in 1..Len(req[r].resp.tools) :
                 LET i == FindByName(req[r].skills, req[r].resp.tools[t].name)
                 IN  i # 0 =>
                       req[r].resp.tools[t].description = req[r].skills[i].description

\* C22 (as claimed): the bridge tool list a scan produced holds no two entries
\* with the same external name, so every entry of the list is the one a call
\* of its name resolves to.
C22_UniqueExternalNames ==
  /\ UniqueNames(lazyMCPToolsCache)
  /\ \A r \in Req :
       /\ UniqueNames(req[r].tools)
       /\ \A i \in 1..Len(req[r].tools) :
            FindByName(req[r].tools, req[r].tools[i].name) = i

\* the names of the entries of xs
NamesOf(xs) == { xs[i].name : i \in 1..Len(xs) }

\* p is the path from the root to a leaf of the installed provider: every
\* segment but the last is a child of the category before it, the last is a
\* tool of the last category
IsLeafPath(p) ==
  /\ Len(p) >= 1
  /\ \A k \in 1..(Len(p) - 1) :
       p[k] \in { Hierarchy(SubSeq(p, 1, k - 1)).children[i] :
                    i \in 1..Len(Hierarchy(SubSeq(p, 1, k - 1)).children) }
  /\ p[Len(p)] \in NamesOf(Hierarchy(SubSeq(p, 1, Len(p) - 1)).tools)

\* the bridge tool t is named after its path by the naming rule
NamedByRule(t) ==
  /\ Len(t.tool_path) > 2 =>
       t.name = t.tool_path[1] \o "_" \o t.tool_path[Len(t.tool_path)]
  /\ Len(t.tool_path) = 2 => t.name = t.tool_path[2]
  /\ IsLeafPath(t.tool_path)

\* C23: every bridge tool of the flattened server is named '<first segment>_
\* <last segment>' when its path has more than two segments and by its last
\* segment when it has two; the path it stores is the full path from the root
\* of the hierarchy to the leaf.
C23_ExternalNameRule ==
  mode = "flat" =>
    /\ \A i \in 1..Len(lazyMCPToolsCache) : NamedByRule(lazyMCPToolsCache[i])
    /\ \A r \in Req : \A i \in 1..Len(req[r].tools) : NamedByRule(req[r].tools[i])

\* C23 witness: a finished scan cached a leaf with a path of four segments
\* under the name cat_leaf, one of three segments and one of two named leaf
C23_Witness ==
  /\ mode = "flat"
  /\ \E i \in 1..Len(lazyMCPToolsCache) :
       /\ lazyMCPToolsCache[i].tool_path = << "cat", "sub", "deep", "leaf" >>
       /\ lazyMCPToolsCache[i].name = "cat_leaf"
  /\ \E i \in 1..Len(lazyMCPToolsCache) :
       /\ Len(lazyMCPToolsCache[i].tool_path) = 3
       /\ lazyMCPToolsCache[i].name = "cat_leaf"
  /\ \E i \in 1..Len(lazyMCPToolsCache) :
       /\ lazyMCPToolsCache[i].tool_path = << "cat", "leaf" >>
       /\ lazyMCPToolsCache[i].name = "leaf"

\* C24: a catalog is the entries of the skills the request loaded, in the
\* order of the skill cache, followed by one entry per bridge tool the request
\* obtained, in their order; with the flag false it holds the skills only.
C24_SkillsThenBridge ==
  \A r \in Req :
    (req[r].pc = "done" /\ req[r].kind = "list") =>
      LET cat == req[r].resp.tools
          ns  == Len(req[r].skills)
          bt  == IF req[r].enabled THEN req[r].tools ELSE <<>>
      IN  /\ req[r].resp.type = "tools"
          /\ req[r].skills = skillsCache
          /\ Len(cat) = ns + Len(bt)
          /\ \A i \in 1..ns :
               /\ cat[i].name = req[r].skills[i].name
               /\ cat[i].description = req[r].skills[i].description
               /\ cat[i].inputSchema = QuerySchema
          /\ \A k \in 1..Len(bt) :
               /\ cat[ns + k].name = bt[k].name
               /\ cat[ns + k].inputSchema = bt[k].inputSchema

\* C24 witness: a catalog of the flattened server with three skills followed
\* by three bridge entries, one of which has the name of the second skill
C24_Witness ==
  \E r \in Req :
    /\ mode = "flat" /\ req[r].pc = "done" /\ req[r].kind = "list"
    /\ req[r].enabled
    /\ Len(req[r].skills) = 3 /\ Len(req[r].tools) = 3
    /\ Len(req[r].resp.tools) = 6
    /\ req[r].resp.tools[2].name = "catA_leaf"
    /\ req[r].resp.tools[2].inputSchema = QuerySchema
    /\ req[r].resp.tools[5].name = "catA_leaf"
    /\ req[r].resp.tools[5].inputSchema # QuerySchema

\* the directory entry e with another body, kind, tool list, execution logic
\* and parameter map
Rewritten(e) ==
  [e EXCEPT !.content = "Another body.",
            !.type = IF @ = "executable" THEN "" ELSE "executable",
            !.allowed_tools = IF @ = <<>> THEN << "curl" >> ELSE <<>>,
            !.execution_logic = "parallel",
            !.parameters = "schema:other"]

RewrittenEntries(es) == [i \in 1..Len(es) |-> Rewritten(es[i])]

\* C25: the skill entries of a catalog are, for each skill, its name, its
\* description and the generic query schema, and nothing else; the catalog of
\* the same request on a directory that differs in the bodies, kinds, tool
\* lists, execution logic and parameter maps of the skills holds the same
\* skill entries.
C25_ListingIgnoresContent ==
  \A r \in Req :
    (req[r].pc = "done" /\ req[r].kind = "list" /\ disk.state = "present") =>
      LET ns == Len(req[r].skills)
          cat == SubSeq(req[r].resp.tools, 1, ns)
      IN  /\ \A i \in 1..ns :
               /\ DOMAIN cat[i] = {"name", "description", "inputSchema"}
               /\ cat[i].inputSchema = QuerySchema
          /\ cat = MapSkills(ScanDirs(mode, disk.entries))
          /\ cat = MapSkills(ScanDirs(mode, RewrittenEntries(disk.entries)))

\* C25 witness: a catalog of the navigation server that lists an executable
\* skill with a body, a tool list and a parameter map of its own
C25_Witness ==
  \E r \in Req : \E i \in 1..Len(req[r].skills) :
    /\ mode = "nav" /\ req[r].pc = "done" /\ req[r].kind = "list"
    /\ req[r].skills[i].type = "executable"
    /\ req[r].skills[i].allowed_tools # <<>>
    /\ req[r].skills[i].parameters # ""
    /\ req[r].skills[i].content # ""
    /\ req[r].resp.tools[i] =
         [name |-> "deploy", description |-> "deploys things",
          inputSchema |-> QuerySchema]
    /\ ScanDirs(mode, RewrittenEntries(disk.entries)) # req[r].skills

\* C26: in the navigation server, a catalog returned with the flag true while
\* a connected client is held is the skills followed by exactly the two fixed
\* descriptors, whatever hierarchy the provider serves, and the request
\* issued no category lookup.
C26_TwoNavigationTools ==
  [][\A r \in Req :
       (/\ mode = "nav"
        /\ req[r].pc # "done" /\ req'[r].pc = "done"
        /\ req'[r].kind = "list" /\ req'[r].enabled
        /\ lazyMCPClient' # 0
        /\ clientState'[lazyMCPClient'] = "connected")
       => LET cat == req'[r].resp.tools
              ns  == Len(req'[r].skills)
          IN  /\ req'[r].resp.type = "tools"
              /\ Len(cat) = ns + 2
              /\ SubSeq(cat, 1, ns) = MapSkills(req'[r].skills)
              /\ cat[ns + 1].name = "lazy_mcp_get_tools_in_category"
              /\ cat[ns + 2].name = "lazy_mcp_execute_tool"
              /\ \A k \in 1..Len(req'[r].ops) :
                   req'[r].ops[k].op # "get_tools_in_category"]_vars

\* C26 witness: the navigation server connected to the provider with the
\* deepest hierarchy and answered with the skills and the two descriptors
C26_Witness ==
  \E r \in Req :
    /\ mode = "nav" /\ provider = "deep"
    /\ req[r].pc = "done" /\ req[r].kind = "list" /\ req[r].enabled
    /\ lazyMCPClient # 0 /\ clientState[lazyMCPClient] = "connected"
    /\ req[r].skills # <<>>
    /\ Len(req[r].resp.tools) = Len(req[r].skills) + 2
    /\ req[r].ops # <<>>
    /\ \A k \in 1..Len(req[r].ops) : req[r].ops[k].op = "connect"

\* the step in which the handler in slot r evaluates the flag
EvaluatesFlag(r) ==
  /\ req[r].pc \in {"L_skills", "C_skills"}
  /\ req'[r].pc # req[r].pc
  /\ ~(req[r].kind = "call" /\ FindByName(req[r].skills, req[r].name) # 0)

\* C27: the flag a handler reads is true exactly when LAZY_MCP_ENABLED is set
\* to 'true', or is unset and the launch command exists, as they are at that
\* moment; no step of a handler changes the variable, and a handler that reads
\* the flag false changes nothing but its own frame.
C27_FlagFromEnvironment ==
  [][/\ \A env \in EnvValues : \A cmd \in BOOLEAN :
          getLazyMCPEnabled(env, cmd) <=>
            ((env # "unset" /\ env = "true") \/ (env = "unset" /\ cmd))
     /\ envVar' = envVar
     /\ \A r \in Req :
          EvaluatesFlag(r) =>
            /\ req'[r].enabled <=>
                 ((envVar # "unset" /\ envVar = "true")
                    \/ (envVar = "unset" /\ cmdExists))
            /\ ~req'[r].enabled =>
                 UNCHANGED << envVar, cmdExists, disk, skillVars, bridgeVars >>]_vars

\* C27 witness: a request read the flag false although the launch command
\* exists, the variable being set to a string other than 'true'
C27_Witness ==
  \E r \in Req :
    /\ req[r].pc = "done" /\ req[r].kind = "list" /\ ~req[r].enabled
    /\ envVar = "1" /\ cmdExists
    /\ req[r].resp = ToolsResp(MapSkills(req[r].skills))

\* the paths of all leaves under the category p of the installed provider
RECURSIVE LeafPathsUnder(_)
LeafPathsUnder(p) ==
  { p \o << n >> : n \in NamesOf(Hierarchy(p).tools) }
    \cup UNION { LeafPathsUnder(p \o << Hierarchy(p).children[i] >>) :
                   i \in 1..Len(Hierarchy(p).children) }

\* the scan of the request in slot r has returned and all its lookups succeeded
ScanSucceeded(r) ==
  /\ mode = "flat" /\ req[r].pc = "scanning" /\ req[r].stack = <<>>
  /\ \A k \in 1..Len(req[r].ops) :
       req[r].ops[k].op = "get_tools_in_category" => req[r].ops[k].outcome = "ok"

\* a is a proper prefix of b
ProperPrefix(a, b) == Len(a) < Len(b) /\ SubSeq(b, 1, Len(a)) = a

\* the category path of a bridge tool
CategoryPath(t) == SubSeq(t.tool_path, 1, Len(t.tool_path) - 1)

NeedsBridge(r) ==
  /\ req[r].pc \in {"L_skills", "C_skills"}
  /\ req'[r].pc # req[r].pc
  /\ getLazyMCPEnabled(envVar, cmdExists)
  /\ \/ req[r].kind = "list"
     \/ /\ req[r].kind = "call"
        /\ FindByName(req[r].skills, req[r].name) = 0
        /\ mode = "nav" => req[r].name \in {NavBrowse, NavExecute}

\* a step in which a connection attempt starts
StartsConnect == \E c \in Clients : clientState[c] = "unused" /\ clientState'[c] # "unused"

\* C29 (as claimed): once a connection attempt has failed and no client is
\* held, the next request that turns to the bridge, the flag still being
\* true, starts a new connection attempt; a connection attempt starts only in
\* the step of such a request.
C29_RetryOnNextRequest ==
  [][/\ \A r \in Req :
          (/\ NeedsBridge(r)
           /\ getLazyMCPEnabled(envVar', cmdExists')
           /\ lazyMCPClient = 0
           /\ \E c \in Clients : clientState[c] = "closed")
          => /\ StartsConnect
             /\ req'[r].pc = "connecting"
     /\ StartsConnect => \E r \in Req : NeedsBridge(r) /\ req'[r].pc = "connecting"]_vars

\* C30 (as claimed): a request is served the cached list only when that list
\* is non-empty and younger than CACHE_DURATION; with an empty cached list
\* every request re-reads the directory, whatever time has passed; a reload
\* replaces the cached list and the timestamp.
C30_EmptyCacheAlwaysReloads ==
  [][\A r \in Req :
       Starts(r) =>
         /\ ~req'[r].scanned =>
              /\ skillsCache # <<>> /\ now - lastCacheTime < CACHE_DURATION
              /\ req'[r].skills = skillsCache
         /\ skillsCache = <<>> => req'[r].scanned
         /\ req'[r].scanned =>
              skillsCache' = req'[r].skills /\ lastCacheTime' = now]_vars

\* C30 (amended): as claimed, unless the cache is not served and the skills
\* root is absent and cannot be created: then the request returns no skill
\* and leaves the cached list and the timestamp as they were.
C30_EmptyCacheReloadsIfRoot ==
  [][\A r \in Req :
       Starts(r) =>
         LET served == skillsCache # <<>> /\ now - lastCacheTime < CACHE_DURATION
         IN  IF ~served /\ disk.state = "uncreatable"
             THEN /\ req'[r].skills = <<>>
                  /\ UNCHANGED << skillsCache, lastCacheTime >>
             ELSE /\ ~req'[r].scanned =>
                       served /\ req'[r].skills = skillsCache
                  /\ skillsCache = <<>> => req'[r].scanned
                  /\ req'[r].scanned =>
                       skillsCache' = req'[r].skills /\ lastCacheTime' = now]_vars

\* C30 witness: less than CACHE_DURATION after a reload that found no skill,
\* the next request re-read the directory, found none again and replaced the
\* timestamp
C30_Witness ==
  \E q \in Req : \E r \in Req \ {q} :
    /\ req[q].pc = "done" /\ req[q].kind = "list"
    /\ req[q].scanned /\ req[q].skills = <<>>
    /\ req[r].pc \in {"L_skills", "C_skills"}
    /\ req[r].scanned /\ req[r].skills = <<>>
    /\ req[q].snow < req[r].snow
    /\ req[r].snow - req[q].snow < CACHE_DURATION
    /\ skillsCache = <<>> /\ lastCacheTime = req[r].snow
    /\ disk.state = "present"

\* --------------------------------------------- claims on scans and failures
\* the categories whose lookup failed in the scan of rq
FailedCategories(rq) ==
  { rq.ops[k].arguments :
      k \in { j \in 1..Len(rq.ops) :
                rq.ops[j].op = "get_tools_in_category" /\ rq.ops[j].outcome # "ok" } }

\* a is b or a prefix of b
Prefix(a, b) == Len(a) <= Len(b) /\ SubSeq(b, 1, Len(a)) = a

\* the leaves that are under none of the categories cs
LeavesOutside(cs) ==
  { p \in LeafPathsUnder(<<>>) :
      \A c \in cs : ~Prefix(c, SubSeq(p, 1, Len(p) - 1)) }

\* C31: a scan that has returned holds exactly the leaves that are under no
\* category whose lookup failed, each once; a list-tools request whose scan
\* had failed lookups still answers with a catalog.
C31_FailedBranchOnly ==
  \A r \in Req :
    /\ (mode = "flat" /\ req[r].pc = "scanning" /\ req[r].stack = <<>>) =>
         /\ { req[r].tools[i].tool_path : i \in 1..Len(req[r].tools) }
              = LeavesOutside(FailedCategories(req[r]))
         /\ Len(req[r].tools) = Cardinality(LeavesOutside(FailedCategories(req[r])))
    /\ (req[r].pc = "done" /\ req[r].kind = "list") => req[r].resp.type = "tools"

\* C31 witness: the lookup of catA failed, and the catalog of the request
\* holds the skills and the leaf of catB
C31_Witness ==
  \E r \in Req :
    /\ mode = "flat" /\ req[r].pc = "done" /\ req[r].kind = "list"
    /\ FailedCategories(req[r]) = { << "catA" >> }
    /\ Len(req[r].tools) = 1
    /\ req[r].tools[1].tool_path = << "catB", "leaf" >>
    /\ req[r].resp.type = "tools"
    /\ Len(req[r].resp.tools) = Len(req[r].skills) + 1

\* C32: the step that runs loadSkills leaves the bridge tool cache, its
\* timestamp and the clients as they are, and no other step changes the skill
\* cache or its timestamp; the skill cache is reloaded only when it is empty
\* or 5000 ms old, and the flattened server serves the bridge tool cache
\* exactly while it is non-empty and less than 300000 ms old.
C32_CachesIndependent ==
  [][/\ \A r \in Req : Starts(r) =>
          /\ UNCHANGED << lazyMCPClient, clientState, lazyMCPToolsCache,
                          lastLazyMCPCacheTime >>
          /\ req'[r].scanned => (skillsCache = <<>> \/ now - lastCacheTime >= 5000)
     /\ (\A r \in Req : ~Starts(r)) => UNCHANGED << skillsCache, lastCacheTime >>
     /\ \A r \in Req :
          (mode = "flat" /\ NeedsBridge(r)) =>
            IF lazyMCPToolsCache # <<>> /\ now - lastLazyMCPCacheTime < 300000
            THEN /\ req'[r].tools = lazyMCPToolsCache
                 /\ req'[r].pc \in {"done", "C_tools"}
                 /\ req'[r].ops = req[r].ops
                 /\ UNCHANGED << lazyMCPClient, clientState, lazyMCPToolsCache,
                                 lastLazyMCPCacheTime >>
            ELSE req'[r].tools = <<>>]_vars

\* C32 witness: 5000 ms after both caches were filled, a list-tools request
\* reloaded the skills and was served the bridge tools from the cache
C32_Witness ==
  \E r \in Req :
    /\ mode = "flat" /\ req[r].pc = "done" /\ req[r].kind = "list"
    /\ req[r].enabled /\ req[r].scanned
    /\ req[r].snow = StartTime + 5000
    /\ lastCacheTime = StartTime + 5000
    /\ lastLazyMCPCacheTime = StartTime
    /\ req[r].ops = <<>>
    /\ req[r].tools # <<>> /\ req[r].tools = lazyMCPToolsCache

\* the positions of the piece x in the text tx
At(tx, x) == { k \in 1..Len(tx) : tx[k] = x }

ClosingSections ==
  { "## Conditional Logic", "## Sequential Execution", "## Parallel Execution",
    "## Standard Execution" }

\* the closing section that belongs to a value of execution_logic
ClosingOf(logic) ==
  IF logic = "conditional" THEN "## Conditional Logic"
  ELSE IF logic = "sequential" THEN "## Sequential Execution"
  ELSE IF logic = "parallel" THEN "## Parallel Execution"
  ELSE "## Standard Execution"

\* C33: the text answered for an executable skill is the header naming the
\* skill, the description, a Task Context section with the query exactly when
\* a non-empty query was given, an Available Tools section exactly when the
\* skill allows tools, the content under Execution Instructions, and as its
\* last piece the one closing section that belongs to the execution logic.
C33_GeneratedBody ==
  \A r \in Req :
    (/\ mode = "nav" /\ req[r].pc = "done" /\ req[r].kind = "call"
     /\ FindByName(req[r].skills, req[r].name) # 0
     /\ req[r].skills[FindByName(req[r].skills, req[r].name)].type = "executable")
    => LET sk == req[r].skills[FindByName(req[r].skills, req[r].name)]
           tx == req[r].resp.text
           given == req[r].args.query # <<>> /\ req[r].args.query[1] # ""
           ctx == At(tx, "## Task Context")
           avl == At(tx, "## Available Tools")
           exe == At(tx, "## Execution Instructions")
       IN  /\ req[r].resp.type = "text"
           /\ tx[1] = "# " \o sk.name \o " - Dynamic Execution"
           /\ tx[2] = sk.description
           /\ ctx = (IF given THEN {3} ELSE {})
           /\ given => tx[4] = req[r].args.query[1]
           /\ avl = (IF sk.allowed_tools # <<>>
                     THEN { IF given THEN 5 ELSE 3 } ELSE {})
           /\ exe = { Len(tx) - 2 }
           /\ \A a \in avl : \A e \in exe : a < e
           /\ tx[Len(tx) - 1] = sk.content
           /\ tx[Len(tx)] = ClosingOf(sk.execution_logic)
           /\ { k \in 1..Len(tx) : tx[k] \in ClosingSections } = { Len(tx) }

\* C33 witness: a conditional skill with a tool list called with a query, and
\* its text holds all six parts
C33_Witness ==
  \E r \in Req :
    /\ mode = "nav" /\ req[r].pc = "done" /\ req[r].kind = "call"
    /\ req[r].name = "triage" /\ req[r].args.query = << "coffee" >>
    /\ req[r].resp.type = "text"
    /\ Len(req[r].resp.text) = 10
    /\ req[r].resp.text[3] = "## Task Context"
    /\ req[r].resp.text[5] = "## Available Tools"
    /\ req[r].resp.text[10] = "## Conditional Logic"

\* ------------------------------------------- claims on an uncreatable root
\* the step in which the handler in slot r answers
Answers(r) == req[r].pc \in {"L_skills", "C_skills"} /\ req'[r].pc = "done"

\* the answer of a handler whose load returned no skill, the bridge being off
EmptyLoadAnswer(rq) ==
  IF rq.kind = "list" THEN ToolsResp(<<>>) ELSE NotFound(rq.name)

\* C34: when the skills root is absent and cannot be created, the load
\* returns an empty skill list without raising and leaves the cached list
\* and the timestamp unchanged; list-tools then answers a catalog with no
\* skill and call-tool fails with NotFound only.
C34_UncreatableRootYieldsEmpty ==
  [][\A r \in Req :
       /\ (Starts(r) /\ disk.state = "uncreatable") =>
            /\ req'[r].skills = <<>>
            /\ UNCHANGED << skillsCache, lastCacheTime >>
       /\ (Answers(r) /\ req[r].skills = <<>>) =>
            req'[r].resp = EmptyLoadAnswer(req[r])]_vars

\* C34 (amended): as claimed when the cache is not served; a cached list that
\* is non-empty and younger than CACHE_DURATION is returned without looking
\* at the root, and the request answers from it.
C34_UncreatableRootYieldsEmptyUnlessFresh ==
  [][\A r \in Req :
       /\ (Starts(r) /\ disk.state = "uncreatable") =>
            /\ req'[r].skills =
                 (IF skillsCache # <<>> /\ now - lastCacheTime < CACHE_DURATION
                  THEN skillsCache ELSE <<>>)
            /\ ~req'[r].scanned
            /\ UNCHANGED << skillsCache, lastCacheTime, disk >>
       /\ (Answers(r) /\ req[r].skills = <<>>) =>
            req'[r].resp = EmptyLoadAnswer(req[r])]_vars

\* C34 witness: a call-tool request that arrived when the cached list had
\* expired and the root could not be created was answered NotFound; the
\* cached list and its timestamp are the ones of the earlier load
C34_Witness ==
  \E r \in Req :
    /\ req[r].pc = "done" /\ req[r].kind = "call"
    /\ req[r].skills = <<>> /\ ~req[r].scanned
    /\ req[r].resp = NotFound(req[r].name)
    /\ disk.state = "uncreatable"
    /\ skillsCache # <<>>
    /\ lastCacheTime < req[r].snow
    /\ req[r].snow - lastCacheTime >= CACHE_DURATION

\* ------------------------------------------ claims on overlapping requests
\* the step in which ensureLazyMCPConnection returns true to the request in
\* slot r of the flattened server
EnsureReturnsTrue(r) == req[r].pc # "scanning" /\ req'[r].pc = "scanning"

\* the step in which the request in slot r issues a category lookup or an
\* execute call on the client reference
IssuesBridgeCall(r) ==
  /\ Len(req'[r].ops) = Len(req[r].ops) + 1
  /\ req'[r].ops[Len(req'[r].ops)].op \in {"get_tools_in_category", "execute_tool"}

\* the reference names a client whose handshake has completed
Connected == lazyMCPClient # 0 /\ clientState[lazyMCPClient] = "connected"

\* C35 (as claimed): ensureLazyMCPConnection returns true only when the
\* handshake of the current client has completed, and no request issues a
\* bridge call on a client that is still connecting or whose connect failed.
C35_TrueOnlyAfterHandshake ==
  [][\A r \in Req :
       /\ EnsureReturnsTrue(r) => Connected'
       /\ IssuesBridgeCall(r) => Connected]_vars

\* the step in which loadLazyMCPTools of the request in slot r resumes after
\* its scan and writes the cache
FinishesScan(r) ==
  req[r].pc = "scanning" /\ req[r].stack = <<>> /\ req'[r].pc # "scanning"

\* C36 (as claimed): the timestamp of the bridge tool cache never decreases,
\* and a scan that completes leaves in the cache the list and the timestamp
\* of one scan, the one that started last: its own, unless the cache already
\* holds those of a scan that started later.
C36_LastStartedScanWins ==
  [][/\ lastLazyMCPCacheTime' >= lastLazyMCPCacheTime
     /\ \A r \in Req :
          FinishesScan(r) =>
            IF lastLazyMCPCacheTime > req[r].lnow
            THEN UNCHANGED << lazyMCPToolsCache, lastLazyMCPCacheTime >>
            ELSE /\ lazyMCPToolsCache' = req[r].tools
                 /\ lastLazyMCPCacheTime' = req[r].lnow]_vars

\* the step in which the call router of the request in slot r proxies the
\* call to the provider
Proxies(r) ==
  /\ req[r].pc = "C_tools"
  /\ Len(req'[r].ops) = Len(req[r].ops) + 1
  /\ req'[r].ops[Len(req'[r].ops)].op = "execute_tool"

\* C37 (as claimed): in the flattened server a call is proxied only on a
\* client reference that is non-null and connected, and in every state a
\* non-empty bridge tool cache implies such a client.
C37_CacheImpliesLiveClient ==
  [][mode = "flat" =>
       /\ \A r \in Req : Proxies(r) => Connected
       /\ lazyMCPToolsCache # <<>> => Connected]_vars

\* ------------------------------------------------------ claims on progress
\* the category lookups the request rq has issued, in order
RECURSIVE Lookups(_)
Lookups(ops) ==
  IF ops = <<>> THEN <<>>
  ELSE (IF Head(ops).op = "get_tools_in_category" THEN << Head(ops) >> ELSE <<>>)
         \o Lookups(Tail(ops))

\* the paths a scan with the lookups ls has to visit: the root and every
\* child of a category whose lookup was answered
ToVisit(ls) ==
  { Root } \cup
  UNION { { JoinPath(ls[i].arguments, c) :
              c \in { Hierarchy(ls[i].arguments).children[k] :
                        k \in 1..Len(Hierarchy(ls[i].arguments).children) } } :
          i \in { j \in 1..Len(ls) : ls[j].outcome = "ok" } }

\* the scan of rq has looked up every category it reached exactly once
OneLookupEach(rq) ==
  LET ls == Lookups(rq.ops)
  IN  /\ \A i \in 1..Len(ls) : \A j \in 1..Len(ls) :
           ls[i].arguments = ls[j].arguments => i = j
      /\ { ls[i].arguments : i \in 1..Len(ls) } = ToVisit(ls)

\* a request that has been received and not answered yet
Pending(r) == req[r].pc \notin {"idle", "done"}

\* C38: when every bridge operation returns or fails and the hierarchy is
\* finite and acyclic, every list-tools and call-tool request is eventually
\* answered, and a scan that has ended has issued exactly one category
\* lookup for each category it reached.
C38_EveryRequestAnswered ==
  /\ \A r \in Req : Pending(r) ~> (req[r].pc = "done" /\ req[r].resp # NoResp)
  /\ [](\A r \in Req :
          (req[r].pc = "scanning" /\ req[r].stack = <<>>) => OneLookupEach(req[r]))

\* C38 witness: a list-tools request was answered with bridge tools after a
\* scan that looked up the root, a category and a category below it
C38_Witness ==
  \E r \in Req :
    /\ req[r].pc = "done" /\ req[r].kind = "list"
    /\ Len(req[r].tools) > 0
    /\ OneLookupEach(req[r])
    /\ \E i \in 1..Len(Lookups(req[r].ops)) :
         /\ Len(Lookups(req[r].ops)[i].arguments) > 1
         /\ Lookups(req[r].ops)[i].outcome = "ok"

\* the step in which loadLazyMCPTools of the request in slot r returns the
\* cached list
ServedFromCache(r) ==
  /\ mode = "flat"
  /\ req[r].pc \in {"L_skills", "C_skills"}
  /\ req'[r].pc \in {"done", "C_tools"}
  /\ req'[r].enabled
  /\ Len(lazyMCPToolsCache) > 0
  /\ (now - lastLazyMCPCacheTime) < LAZY_MCP_CACHE_DURATION

\* C39 (as claimed): a scan in which a category lookup failed does not write
\* the bridge tool cache, and a list served from the cache holds every leaf
\* of the hierarchy.
C39_OnlyCompleteScansCached ==
  [][\A r \in Req :
       /\ (FinishesScan(r) /\ req[r].lookupFailed) =>
            UNCHANGED << lazyMCPToolsCache, lastLazyMCPCacheTime >>
       /\ ServedFromCache(r) =>
            { req'[r].tools[i].tool_path : i \in 1..Len(req'[r].tools) }
              = LeafPathsUnder(<<>>)]_vars

====
